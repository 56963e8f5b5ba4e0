--------------------------- MODULE JtagUartProofs ---------------------------
(***************************************************************************)
(* Proofs about module JtagUart, for every length of buffer and FIFO, all  *)
(* data and any timeouts: neither direction is left waiting for an         *)
(* interrupt that nobody will enable, a call waits for a reason, and each  *)
(* direction is a pipe that loses, repeats and reorders nothing.           *)
(***************************************************************************)
EXTENDS JtagUart, SequenceTheorems, TLAPS

Enabling == {"load", "store", "tell", "unlock"}

\* What a call has in hand is part of what it was asked for.
Counts ==
  /\ n # 0 => pc \in {"wput", "rtake"} /\ n <= count
  /\ pc \in {"rlook", "rtake", "rspin", "rcheck"} => count > 0

(***************************************************************************)
(* The copy of the enabled interrupts is the device's but for the moment   *)
(* between the two assignments, and no routine runs in the section.        *)
(***************************************************************************)
Copies ==
  /\ pie <=> pc \notin Enabling
  /\ isr # "off" => pie
  /\ irq_enable = control \cup (IF pc = "tell" THEN {bit} ELSE {})
  /\ pc = "store" => ie = irq_enable \cup {bit}

\* The routine stops with data left only when the buffer is full.
StopsWhenFull == isr = "received" /\ avail => RxFull

(***************************************************************************)
(* What a waiting call remembers is fixed to an index that nobody moves    *)
(* meanwhile: a writer remembers the place behind its own, a reader its    *)
(* own.  The index of the other side moves towards it or away, but never   *)
(* past.                                                                   *)
(***************************************************************************)
Remembers ==
  /\ \/ pc \in {"wspin", "wcheck"}
     \/ pc \in Enabling \cup {"lock"} /\ bit = "WE" /\ count > 0
     => seen = Modulo(tx_in + 1)
  /\ pc \in {"rspin", "rcheck"} => seen = rx_out

Inv ==
  /\ TypeOK
  /\ Counts
  /\ Copies
  /\ StopsWhenFull
  /\ Remembers
  /\ NoStalledOutput
  /\ NoStalledInput

-----------------------------------------------------------------------------
(***************************************************************************)
(* Circular buffers.                                                       *)
(***************************************************************************)

\* The constants are numbers with room in them.
LEMMA Constants ==
  /\ BufLen \in Nat /\ BufLen >= 2
  /\ Depth \in Nat /\ Depth > 0 /\ MaxCount \in Nat
  /\ IntMax \in Nat /\ IntMax >= 3 /\ DefaultTimeout \in 1 .. IntMax - 1
  /\ Timeouts \subseteq Int
BY BufferAssumption, DeviceAssumption, TimeoutAssumption, CountAssumption

\* An index taken modulo the length is a slot.
LEMMA ModuloIsSlot ==
  ASSUME NEW i \in Nat
  PROVE  Modulo(i) \in Slots
BY Constants, SMT DEF Modulo, Slots

\* The next slot: one further, or the first.
LEMMA NextSlot ==
  ASSUME NEW i \in Slots
  PROVE  Modulo(i + 1) = IF i = BufLen - 1 THEN 0 ELSE i + 1
<1>1. CASE i = BufLen - 1
  BY <1>1, Constants, SMT DEF Modulo, Slots
<1>2. CASE i # BufLen - 1
  BY <1>2, Constants, SMT DEF Modulo, Slots
<1> QED BY <1>1, <1>2

\* What there is room for is a number, and none only in a full buffer.
LEMMA RoomIsGenuine ==
  ASSUME NEW in \in Slots, NEW out \in Slots
  PROVE  /\ Room(in, out) \in Nat
         /\ Room(in, out) = 0 => Modulo(in + 1) = out
<1>1. Room(in, out) \in Nat
  BY Constants, SMT DEF Room, Slots
<1>2. Room(in, out) = 0 => Modulo(in + 1) = out
  BY NextSlot, Constants, SMT DEF Room, Slots
<1> QED BY <1>1, <1>2

\* What can be read is a number, and none only from an empty buffer.
LEMMA FilledIsGenuine ==
  ASSUME NEW in \in Slots, NEW out \in Slots
  PROVE  Filled(in, out) \in Nat /\ (Filled(in, out) = 0 => in = out)
BY Constants, SMT DEF Filled, Slots

\* A buffer whose next slot is the reader's holds all it can.
LEMMA FullIsFull ==
  ASSUME NEW in \in Slots, NEW out \in Slots, Modulo(in + 1) = out
  PROVE  Used(in, out) = BufLen - 1 /\ in # out
BY NextSlot, Constants, SMT DEF Used, Slots

\* The lesser of two numbers.
LEMMA LeastOf ==
  ASSUME NEW a \in Nat, NEW b \in Nat
  PROVE  /\ Least(a, b) \in Nat /\ Least(a, b) <= a /\ Least(a, b) <= b
         /\ Least(a, b) = 0 => a = 0 \/ b = 0
BY SMT DEF Least

-----------------------------------------------------------------------------
(***************************************************************************)
(* The initial state.                                                      *)
(***************************************************************************)
LEMMA InitInv == Init => Inv
<1> SUFFICES ASSUME Init PROVE Inv
  OBVIOUS
<1>1. TypeOK
  <2>1. 0 \in Slots /\ 0 \in 0 .. MaxCount /\ 0 \in 0 .. Depth
    BY Constants, SMT DEF Slots
  <2>2. rx_buf \in [Slots -> Byte] /\ tx_buf \in [Slots -> Byte]
    BY DEF Init
  <2>3. host_inactive \in 0 .. IntMax /\ timeout \in 0 .. IntMax
    BY Constants, SMT DEF Init
  <2>4. /\ received \in Seq(Byte) /\ Len(received) <= Depth
        /\ toSend \in Seq(Byte) /\ Len(toSend) <= Depth
    BY Constants, EmptySeq, SMT DEF Init
  <2> QED BY <2>1, <2>2, <2>3, <2>4 DEF Init, TypeOK
<1>2. Counts /\ Copies /\ StopsWhenFull /\ Remembers
  BY DEF Init, Counts, Copies, StopsWhenFull, Remembers, Enabling
<1>3. NoStalledOutput /\ NoStalledInput
  BY DEF Init, NoStalledOutput, NoStalledInput
<1> QED BY <1>1, <1>2, <1>3 DEF Inv

-----------------------------------------------------------------------------
(***************************************************************************)
(* Types.                                                                  *)
(***************************************************************************)

\* One more character, if there is room, and one fewer.
LEMMA Pushes ==
  ASSUME NEW s \in Seq(Byte), Len(s) <= Depth, NEW b \in Byte
  PROVE  LET t == IF Len(s) < Depth THEN Append(s, b) ELSE s
         IN  t \in Seq(Byte) /\ Len(t) <= Depth
BY Constants, AppendProperties, LenProperties, SMT

LEMMA Pulls ==
  ASSUME NEW s \in Seq(Byte), Len(s) <= Depth, s # <<>>
  PROVE  /\ Head(s) \in Byte /\ Tail(s) \in Seq(Byte) /\ Len(Tail(s)) <= Depth
         /\ Len(s) > 0
<1>1. Len(s) \in Nat \ {0} /\ Len(Tail(s)) = Len(s) - 1
  BY EmptySeq, HeadTailProperties
<1> QED BY <1>1, Constants, HeadTailProperties, SMT

\* The thread keeps the types.
LEMMA ThreadTypes == TypeOK /\ Counts /\ (Begin \/ SetTimeout \/ Thread) => TypeOK'
<1> SUFFICES ASSUME TypeOK, Counts, Begin \/ SetTimeout \/ Thread
             PROVE  TypeOK'
  OBVIOUS
<1>1. /\ rx_in \in Slots /\ rx_out \in Slots /\ tx_in \in Slots /\ tx_out \in Slots
      /\ seen \in Slots /\ count \in Nat /\ n \in Nat /\ 0 \in Slots
      /\ 0 \in 0 .. MaxCount
  BY Constants, SMT DEF TypeOK, Slots
<1>2. CASE Begin
  BY <1>2, CallAssumption
     DEF Begin, Running, TypeOK, rxBuffer, txBuffer, host, device, routine
<1>3. CASE SetTimeout
  <2>1. timeout' \in 0 .. IntMax
    BY <1>3, Constants, SMT DEF SetTimeout
  <2> QED BY <1>3, <2>1
          DEF SetTimeout, TypeOK, rxBuffer, txBuffer, device, routine, locals
<1>4. CASE WriteLook
  <2>1. n' \in 0 .. MaxCount
    <3>1. CASE count = 0
      BY <1>4, <3>1, <1>1 DEF WriteLook
    <3>2. CASE count # 0
      <4>1. n' = Least(Room(tx_in, tx_out), count)
        BY <1>4, <3>2 DEF WriteLook
      <4>2. Room(tx_in, tx_out) \in Nat
        BY <1>1, RoomIsGenuine
      <4>3. n' \in Nat /\ n' <= count
        BY <4>1, <4>2, <1>1, LeastOf
      <4> QED BY <4>3, <1>1, Constants, SMT DEF TypeOK
    <3> QED BY <3>1, <3>2
  <2> QED BY <1>4, <1>1, <2>1
          DEF WriteLook, Running, TypeOK, rxBuffer, txBuffer, host, device, routine
<1>5. CASE WritePut
  <2>1. tx_buf' \in [Slots -> Byte]
    <3>1. PICK s \in [1 .. n -> Byte] :
            tx_buf' = [i \in Slots |-> IF i \in tx_in .. tx_in + n - 1
                                         THEN s[i - tx_in + 1] ELSE tx_buf[i]]
      BY <1>5 DEF WritePut
    <3>2. \A i \in Slots : i \in tx_in .. tx_in + n - 1 =>
                             s[i - tx_in + 1] \in Byte
      <4> TAKE i \in Slots
      <4> HAVE i \in tx_in .. tx_in + n - 1
      <4>1. i - tx_in + 1 \in 1 .. n
        BY <1>1, Constants, SMT DEF Slots
      <4> QED BY <4>1
    <3> QED BY <3>1, <3>2 DEF TypeOK
  <2>2. tx_in' \in Slots
    <3>1. tx_in' = Modulo(tx_in + n)
      BY <1>5 DEF WritePut
    <3>2. tx_in + n \in Nat
      BY <1>1, Constants, SMT DEF Slots
    <3> QED BY <3>1, <3>2, ModuloIsSlot
  <2>3. count' \in 0 .. MaxCount
    BY <1>5, <1>1, Constants, SMT DEF WritePut, Running, Counts, TypeOK
  <2> QED BY <1>5, <1>1, <2>1, <2>2, <2>3
          DEF WritePut, Running, TypeOK, rxBuffer, host, device, routine
<1>6. CASE ReadLook
  <2>1. \/ n' = Least(Filled(rx_in, rx_out), count)
        \/ n' = n \/ n' = 0
    BY <1>6 DEF ReadLook, Return
  <2>2. n' \in 0 .. MaxCount
    <3>1. Filled(rx_in, rx_out) \in Nat
      BY <1>1, FilledIsGenuine
    <3>2. LET some == Least(Filled(rx_in, rx_out), count)
          IN  some \in Nat /\ some <= count
      BY <3>1, <1>1, LeastOf
    <3> QED BY <2>1, <3>2, <1>1, Constants, SMT DEF TypeOK
  <2> QED BY <1>6, <1>1, <2>2
          DEF ReadLook, Return, Running, TypeOK, rxBuffer, txBuffer, host, device,
              routine
<1>7. CASE ReadTake
  <2>1. rx_out' \in Slots
    BY <1>7, <1>1, ModuloIsSlot, Constants, SMT DEF ReadTake, Take, Slots
  <2>2. count' \in 0 .. MaxCount
    BY <1>7, <1>1, Constants, SMT DEF ReadTake, Take, Running, Counts, TypeOK
  <2> QED BY <1>7, <1>1, <2>1, <2>2
          DEF ReadTake, Take, Running, TypeOK, txBuffer, host, device, routine
<1>8. CASE Load \/ Store \/ Tell \/ Lock \/ Unlock
  BY <1>8, <1>1 DEF Load, Store, Tell, Lock, Unlock, Goto, Return, TypeOK, rxBuffer,
                    txBuffer, host, device, routine, locals
<1>9. CASE \/ SpinEnds("wspin", tx_out, "wcheck") \/ SpinEnds("rspin", rx_in, "rcheck")
           \/ Recheck("wcheck", tx_out, "wlook") \/ Recheck("rcheck", rx_in, "rlook")
           \/ CloseEnds
  BY <1>9, <1>1 DEF SpinEnds, Recheck, CloseEnds, Goto, Return, TypeOK, rxBuffer,
                    txBuffer, host, device, routine, locals
<1> QED BY <1>2, <1>3, <1>4, <1>5, <1>6, <1>7, <1>8, <1>9 DEF Thread

\* So do the interrupt routine, the timer and the host.
LEMMA RoutineTypes == TypeOK /\ (Interrupt \/ HostTimeout \/ HostPolls) => TypeOK'
<1> SUFFICES ASSUME TypeOK, Interrupt \/ HostTimeout \/ HostPolls
             PROVE  TypeOK'
  OBVIOUS
<1>1. CASE Enter
  BY <1>1 DEF Enter, TypeOK, rxBuffer, txBuffer, host, device, locals
<1>2. CASE ReadControl
  <2>1. space' \in 0 .. Depth
    BY <1>2, Constants, LenProperties, SMT DEF ReadControl, TypeOK
  <2>2. wi' \in BOOLEAN /\ avail' \in BOOLEAN
    BY <1>2 DEF ReadControl, WritePending, ReadPending
  <2> QED BY <1>2, <2>1, <2>2
          DEF ReadControl, TypeOK, rxBuffer, txBuffer, host, device, locals
<1>3. CASE Receive
  <2>1. CASE RxFull \/ received = <<>>
    BY <1>3, <2>1 DEF Receive, TypeOK, rxBuffer, txBuffer, host, locals
  <2>2. CASE ~RxFull /\ received # <<>>
    <3>1. rx_in' \in Slots
      <4>1. rx_in + 1 \in Nat
        BY Constants, SMT DEF TypeOK, Slots
      <4> QED BY <1>3, <2>2, <4>1, ModuloIsSlot DEF Receive
    <3>2. Head(received) \in Byte /\ received' \in Seq(Byte) /\ Len(received') <= Depth
      BY <1>3, <2>2, Pulls DEF Receive, TypeOK
    <3>3. rx_buf' \in [Slots -> Byte]
      BY <1>3, <2>2, <3>2 DEF Receive, TypeOK
    <3> QED BY <1>3, <2>2, <3>1, <3>2, <3>3
            DEF Receive, TypeOK, txBuffer, host, locals
  <2> QED BY <2>1, <2>2
<1>4. CASE Received
  BY <1>4 DEF Received, TypeOK, rxBuffer, txBuffer, host, locals
<1>5. CASE Send
  <2>1. CASE space > 0 /\ tx_out # tx_in
    <3>1. toSend' \in Seq(Byte) /\ Len(toSend') <= Depth
      <4>1. tx_buf[tx_out] \in Byte
        BY DEF TypeOK
      <4> QED BY <1>5, <2>1, <4>1, Pushes DEF Send, SendWhile, Push, TypeOK
    <3>2. tx_out' \in Slots
      BY <1>5, <2>1, Constants, ModuloIsSlot, SMT DEF Send, SendWhile, TypeOK, Slots
    <3>3. space' \in 0 .. Depth
      BY <1>5, <2>1, Constants, SMT DEF Send, SendWhile, TypeOK
    <3> QED BY <1>5, <2>1, <3>1, <3>2, <3>3
            DEF Send, SendWhile, TypeOK, rxBuffer, host, locals
  <2>2. CASE ~ (space > 0 /\ tx_out # tx_in)
    <3>1. 0 \in 0 .. Depth
      BY Constants, SMT
    <3> QED BY <1>5, <2>2, <3>1 DEF Send, SendWhile, TypeOK, rxBuffer, host, locals
  <2> QED BY <2>1, <2>2
<1>6. CASE HostTimeout
  <2>1. host_inactive' \in 0 .. IntMax
    BY <1>6, Constants, SMT DEF HostTimeout, TypeOK
  <2> QED BY <1>6, <2>1
          DEF HostTimeout, TypeOK, rxBuffer, txBuffer, locals, routine
<1>7. CASE HostPolls
  <2>1. toSend' \in Seq(Byte) /\ Len(toSend') <= Depth
    <3>1. CASE toSend = <<>>
      BY <1>7, <3>1, Constants, EmptySeq DEF HostPolls, TypeOK
    <3>2. CASE toSend # <<>>
      BY <1>7, <3>2, Pulls DEF HostPolls, TypeOK
    <3> QED BY <3>1, <3>2
  <2>2. received' \in Seq(Byte) /\ Len(received') <= Depth
    <3>1. CASE UNCHANGED received
      BY <3>1 DEF TypeOK
    <3>2. ASSUME Len(received) < Depth, NEW b \in Byte, received' = Append(received, b)
          PROVE  received' \in Seq(Byte) /\ Len(received') <= Depth
      BY <3>2, Pushes DEF TypeOK
    <3> QED BY <1>7, <3>1, <3>2 DEF HostPolls
  <2> QED BY <1>7, <2>1, <2>2
          DEF HostPolls, TypeOK, rxBuffer, txBuffer, host, locals, routine
<1> QED BY <1>1, <1>2, <1>3, <1>4, <1>5, <1>6, <1>7 DEF Interrupt

-----------------------------------------------------------------------------
(***************************************************************************)
(* The other parts of the invariant.  Each is about few of the variables,  *)
(* so the actions that leave those alone are taken together.               *)
(***************************************************************************)

\* What every other step has to know of the types.
LEMMA Ranges ==
  ASSUME TypeOK
  PROVE  /\ {rx_in, rx_out, tx_in, tx_out, seen} \subseteq Slots
         /\ count \in Nat /\ n \in Nat /\ bit \in {"RE", "WE"} /\ "RE" # "WE"
         /\ irq_enable \subseteq {"RE", "WE"} /\ control \subseteq {"RE", "WE"}
         /\ pie \in BOOLEAN /\ avail \in BOOLEAN /\ moved \in BOOLEAN
BY Constants, SMT DEF TypeOK

\* The routine, the timer and the host leave the thread where it is.
LEMMA ThreadStands ==
  ASSUME Interrupt \/ HostTimeout \/ HostPolls
  PROVE  UNCHANGED <<pc, locals, pie, rx_out, tx_in>>
BY DEF Interrupt, Enter, ReadControl, Receive, Received, Send,
       SendWhile, HostTimeout, HostPolls, rxBuffer, txBuffer

\* The thread leaves the routine where it is, which is not running.
LEMMA RoutineStands ==
  ASSUME Begin \/ SetTimeout \/ Thread
  PROVE  isr = "off" /\ UNCHANGED <<routine, rx_in, tx_out, received, toSend>>
BY DEF Begin, SetTimeout, Thread, WriteLook, WritePut, ReadLook, ReadTake, Take,
       SpinEnds, Recheck, CloseEnds, Lock, Load, Store, Tell, Unlock, Running,
       rxBuffer, txBuffer, device

\* A call never has more in hand than it was asked for.
LEMMA CountsKept == TypeOK /\ Counts /\ Next => Counts'
<1> SUFFICES ASSUME TypeOK, Counts, Next PROVE Counts'
  OBVIOUS
<1>1. count \in Nat /\ n \in Nat /\ {rx_in, rx_out, tx_in, tx_out} \subseteq Slots
  BY Ranges
<1>2. CASE Begin
  BY <1>2, <1>1, CallAssumption, SMT DEF Begin, Running, Counts
<1>3. CASE WriteLook
  <2>1. CASE count = 0
    BY <1>3, <2>1 DEF WriteLook, Running, Counts
  <2>2. CASE count # 0
    <3>1. n' = Least(Room(tx_in, tx_out), count) /\ Room(tx_in, tx_out) \in Nat
      BY <1>3, <2>2, <1>1, RoomIsGenuine DEF WriteLook
    <3>2. n' <= count
      BY <3>1, <1>1, LeastOf
    <3> QED BY <1>3, <3>2 DEF WriteLook, Counts
  <2> QED BY <2>1, <2>2
<1>4. CASE ReadLook
  <2>1. Least(Filled(rx_in, rx_out), count) <= count
    BY <1>1, FilledIsGenuine, LeastOf
  <2> QED BY <1>4, <2>1 DEF ReadLook, Return, Running, Counts
<1>5. CASE WritePut \/ ReadTake
  BY <1>5, <1>1, SMT DEF WritePut, ReadTake, Take, Running, Counts
<1>6. CASE \/ SpinEnds("wspin", tx_out, "wcheck") \/ SpinEnds("rspin", rx_in, "rcheck")
           \/ Recheck("wcheck", tx_out, "wlook") \/ Recheck("rcheck", rx_in, "rlook")
           \/ CloseEnds \/ Lock \/ Load \/ Store \/ Tell \/ Unlock
  BY <1>6 DEF SpinEnds, Recheck, CloseEnds, Lock, Load, Store, Tell, Unlock, Goto,
              Return, Running, Counts, locals
<1>7. CASE SetTimeout
  BY <1>7 DEF SetTimeout, Counts, locals
<1>8. CASE Interrupt \/ HostTimeout \/ HostPolls
  BY <1>8, ThreadStands DEF Counts, locals
<1> QED BY <1>2, <1>3, <1>4, <1>5, <1>6, <1>7, <1>8 DEF Next, Thread

\* The device's enabled interrupts and the driver's copy stay in step.
LEMMA CopiesKept == TypeOK /\ Copies /\ Next => Copies'
<1> SUFFICES ASSUME TypeOK, Copies, Next PROVE Copies'
  OBVIOUS
<1>1. CASE Begin
  BY <1>1, CallAssumption DEF Begin, Running, Copies, Enabling, routine, device
<1>2. CASE \/ SetTimeout \/ WriteLook \/ WritePut \/ ReadLook \/ ReadTake
           \/ SpinEnds("wspin", tx_out, "wcheck") \/ SpinEnds("rspin", rx_in, "rcheck")
           \/ Recheck("wcheck", tx_out, "wlook") \/ Recheck("rcheck", rx_in, "rlook")
           \/ CloseEnds
  BY <1>2 DEF SetTimeout, WriteLook, WritePut, ReadLook, ReadTake, Take, SpinEnds,
              Recheck, CloseEnds, Goto, Return, Running, Copies, Enabling, routine,
              device
<1>3. CASE Lock \/ Load \/ Store \/ Tell \/ Unlock
  BY <1>3 DEF Lock, Load, Store, Tell, Unlock, Goto, Return, Running, Copies,
              Enabling, routine, device, locals
<1>4. CASE Enter \/ ReadControl \/ Receive
  BY <1>4, ThreadStands DEF Interrupt, Enter, ReadControl, Receive, Copies, Enabling,
                            device, locals
<1>5. CASE Received \/ Send
  BY <1>5 DEF Received, Send, SendWhile, Copies, Enabling, locals
<1>6. CASE HostTimeout \/ HostPolls
  BY <1>6 DEF HostTimeout, HostPolls, Copies, Enabling, locals, routine
<1> QED BY <1>1, <1>2, <1>3, <1>4, <1>5, <1>6 DEF Next, Thread, Interrupt

\* The inner loop of the receive half is left with data only if it is full.
LEMMA StopsKept == StopsWhenFull /\ Next => StopsWhenFull'
<1> SUFFICES ASSUME StopsWhenFull, Next PROVE StopsWhenFull'
  OBVIOUS
<1>1. CASE Begin \/ SetTimeout \/ Thread
  BY <1>1, RoutineStands DEF StopsWhenFull, routine
<1>2. CASE Interrupt
  BY <1>2, ThreadStands DEF Interrupt, Enter, ReadControl, Receive, Received,
      Send, SendWhile, StopsWhenFull, RxFull, rxBuffer
<1>3. CASE HostTimeout \/ HostPolls
  BY <1>3 DEF HostTimeout, HostPolls, StopsWhenFull, RxFull, rxBuffer, routine
<1> QED BY <1>1, <1>2, <1>3 DEF Next

\* What a waiting call remembers is fixed to an index nobody moves.
LEMMA RemembersKept == TypeOK /\ Counts /\ Remembers /\ Next => Remembers'
<1> SUFFICES ASSUME TypeOK, Counts, Remembers, Next PROVE Remembers'
  OBVIOUS
<1>1. /\ count \in Nat /\ {rx_in, rx_out, tx_in, tx_out} \subseteq Slots
      /\ "RE" # "WE"
  BY Ranges
<1>2. CASE Begin
  BY <1>2, CallAssumption DEF Begin, Running, Remembers, Enabling
<1>3. CASE WriteLook
  <2>1. count > 0 /\ n' = 0 => tx_out = Modulo(tx_in + 1)
    <3> SUFFICES ASSUME count > 0, n' = 0 PROVE tx_out = Modulo(tx_in + 1)
      OBVIOUS
    <3>1. Least(Room(tx_in, tx_out), count) = 0 /\ Room(tx_in, tx_out) \in Nat
      BY <1>3, <1>1, RoomIsGenuine, SMT DEF WriteLook
    <3>2. Room(tx_in, tx_out) = 0
      BY <3>1, <1>1, LeastOf, SMT
    <3> QED BY <3>2, <1>1, RoomIsGenuine
  <2>2. count > 0 => seen' = tx_out
    BY <1>3, SMT DEF WriteLook
  <2> QED BY <1>3, <2>1, <2>2 DEF WriteLook, Remembers, Enabling, txBuffer
<1>4. CASE ReadLook
  <2>1. pc' = "rspin" => seen' = rx_out
    <3> SUFFICES ASSUME pc' = "rspin" PROVE seen' = rx_out
      OBVIOUS
    <3>1. Least(Filled(rx_in, rx_out), count) = 0 /\ seen' = rx_in
      BY <1>4 DEF ReadLook, Return
    <3>2. count > 0
      BY <1>4 DEF ReadLook, Running, Counts
    <3>3. Filled(rx_in, rx_out) = 0
      BY <3>1, <3>2, <1>1, FilledIsGenuine, LeastOf, SMT
    <3> QED BY <3>1, <3>3, <1>1, FilledIsGenuine
  <2> QED BY <1>4, <1>1, <2>1
          DEF ReadLook, Return, Remembers, Enabling, rxBuffer, txBuffer
<1>5. CASE WritePut \/ ReadTake
  BY <1>5, <1>1 DEF WritePut, ReadTake, Take, Remembers, Enabling
<1>6. CASE \/ SpinEnds("wspin", tx_out, "wcheck") \/ SpinEnds("rspin", rx_in, "rcheck")
           \/ Recheck("wcheck", tx_out, "wlook") \/ Recheck("rcheck", rx_in, "rlook")
           \/ CloseEnds
  BY <1>6 DEF SpinEnds, Recheck, CloseEnds, Goto, Return, Running, Remembers, Enabling,
              rxBuffer, txBuffer, locals
<1>7. CASE Lock \/ Load \/ Store \/ Tell \/ Unlock
  BY <1>7 DEF Lock, Load, Store, Tell, Unlock, Goto, Return, Running, Remembers,
              Enabling, rxBuffer, txBuffer, locals
<1>8. CASE SetTimeout
  BY <1>8 DEF SetTimeout, Remembers, Enabling, rxBuffer, txBuffer, locals
<1>9. CASE Interrupt \/ HostTimeout \/ HostPolls
  BY <1>9, ThreadStands DEF Remembers, Enabling, locals
<1> QED BY <1>2, <1>3, <1>4, <1>5, <1>6, <1>7, <1>8, <1>9 DEF Next, Thread

\* Transmit interrupts are turned off only with nothing to send, and what is
\* then put into the buffer is followed by their being enabled.
LEMMA OutputKept ==
  TypeOK /\ Counts /\ Copies /\ NoStalledOutput /\ Next => NoStalledOutput'
<1> SUFFICES ASSUME TypeOK, Counts, Copies, NoStalledOutput, Next
             PROVE  NoStalledOutput'
  OBVIOUS
<1> USE DEF NoStalledOutput, WillEnable
<1>1. CASE Begin \/ SetTimeout \/ CloseEnds
  BY <1>1, CallAssumption DEF Begin, SetTimeout, CloseEnds, Running, Return, txBuffer,
                              device, locals
<1>2. CASE WriteLook \/ WritePut
  BY <1>2 DEF WriteLook, WritePut, Running, txBuffer, device
<1>3. CASE ReadLook \/ ReadTake
  BY <1>3 DEF ReadLook, ReadTake, Take, Return, Running, txBuffer, device
<1>4. CASE \/ SpinEnds("wspin", tx_out, "wcheck") \/ SpinEnds("rspin", rx_in, "rcheck")
           \/ Recheck("wcheck", tx_out, "wlook") \/ Recheck("rcheck", rx_in, "rlook")
  BY <1>4 DEF SpinEnds, Recheck, Goto, Return, Running, txBuffer, device, locals
<1>5. CASE Lock \/ Load \/ Store \/ Unlock
  BY <1>5 DEF Lock, Load, Store, Unlock, Goto, Return, Running, txBuffer, device, locals
<1>6. CASE Tell
  BY <1>6 DEF Tell, Goto, Running, Copies, txBuffer, locals
<1>7. CASE Enter \/ ReadControl \/ Receive \/ HostPolls
  BY <1>7 DEF Enter, ReadControl, Receive, HostPolls, txBuffer, device, locals
<1>8. CASE Received \/ Send
  BY <1>8, Ranges, SMT DEF Received, Send, SendWhile, Copies, Enabling,
                           txBuffer, locals
<1>9. CASE HostTimeout
  BY <1>9 DEF HostTimeout, Copies, Enabling, txBuffer, locals
<1> QED BY <1>1, <1>2, <1>3, <1>4, <1>5, <1>6, <1>7, <1>8, <1>9
        DEF Next, Thread, Interrupt

\* Receive interrupts are turned off only with a full buffer, and whoever
\* takes something from it enables them.
LEMMA InputKept ==
  TypeOK /\ Copies /\ StopsWhenFull /\ NoStalledInput /\ Next => NoStalledInput'
<1> SUFFICES ASSUME TypeOK, Copies, StopsWhenFull, NoStalledInput, Next
             PROVE  NoStalledInput'
  OBVIOUS
<1> USE DEF NoStalledInput, WillEnable
<1>1. CASE Begin \/ SetTimeout \/ CloseEnds
  BY <1>1, CallAssumption DEF Begin, SetTimeout, CloseEnds, Running, Return, rxBuffer,
                              device, locals
<1>2. CASE WriteLook \/ WritePut
  BY <1>2 DEF WriteLook, WritePut, Running, rxBuffer, device
<1>3. CASE ReadLook \/ ReadTake
  BY <1>3 DEF ReadLook, ReadTake, Take, Return, Running, rxBuffer, device
<1>4. CASE \/ SpinEnds("wspin", tx_out, "wcheck") \/ SpinEnds("rspin", rx_in, "rcheck")
           \/ Recheck("wcheck", tx_out, "wlook") \/ Recheck("rcheck", rx_in, "rlook")
  BY <1>4 DEF SpinEnds, Recheck, Goto, Return, Running, rxBuffer, device, locals
<1>5. CASE Lock \/ Load \/ Store \/ Unlock
  BY <1>5 DEF Lock, Load, Store, Unlock, Goto, Return, Running, rxBuffer, device, locals
<1>6. CASE Tell
  BY <1>6 DEF Tell, Goto, Running, Copies, rxBuffer, locals
<1>7. CASE Enter \/ ReadControl \/ HostPolls
  BY <1>7 DEF Enter, ReadControl, HostPolls, rxBuffer, device, locals
<1>8. CASE Receive
  BY <1>8 DEF Receive, RxFull, rxBuffer, txBuffer, locals
<1>9. CASE Received
  <2>1. avail => rx_in # rx_out
    BY <1>9, Ranges, FullIsFull DEF Received, StopsWhenFull, RxFull
  <2> QED BY <1>9, <2>1 DEF Received, rxBuffer, locals
<1>10. CASE Send
  BY <1>10, Ranges DEF Send, SendWhile, Copies, Enabling, rxBuffer, locals
<1>11. CASE HostTimeout
  BY <1>11 DEF HostTimeout, Copies, Enabling, rxBuffer, locals
<1> QED BY <1>1, <1>2, <1>3, <1>4, <1>5, <1>6, <1>7, <1>8, <1>9, <1>10, <1>11
        DEF Next, Thread, Interrupt

\* A step that changes nothing keeps the invariant.
LEMMA StutterInv == Inv /\ UNCHANGED vars => Inv'
BY DEF Inv, vars, rxBuffer, txBuffer, host, device, locals, routine, TypeOK, Counts,
       Copies, Enabling, StopsWhenFull, RxFull, Remembers, NoStalledOutput,
       NoStalledInput, WillEnable

LEMMA NextInv == Inv /\ [Next]_vars => Inv'
<1> SUFFICES ASSUME Inv, [Next]_vars PROVE Inv'
  OBVIOUS
<1>1. CASE Next
  <2>1. TypeOK'
    BY <1>1, ThreadTypes, RoutineTypes DEF Inv, Next
  <2> QED BY <1>1, <2>1, CountsKept, CopiesKept, StopsKept, RemembersKept, OutputKept,
             InputKept DEF Inv
<1>2. CASE UNCHANGED vars
  BY <1>2, StutterInv
<1> QED BY <1>1, <1>2

-----------------------------------------------------------------------------
(***************************************************************************)
(* The contents of a circular buffer, oldest first.                        *)
(***************************************************************************)

\* Slots counted from another, which wrap once.
LEMMA Wrapped ==
  ASSUME NEW i \in Slots, NEW k \in 0 .. BufLen
  PROVE  Modulo(i + k) = IF i + k < BufLen THEN i + k ELSE i + k - BufLen
<1>1. CASE i + k < BufLen
  BY <1>1, Constants, SMT DEF Modulo, Slots
<1>2. CASE i + k >= BufLen
  BY <1>2, Constants, SMT DEF Modulo, Slots
<1> QED BY <1>1, <1>2, Constants, SMT DEF Slots

LEMMA ContentsAre ==
  ASSUME NEW buf \in [Slots -> Byte], NEW in \in Slots, NEW out \in Slots
  PROVE  /\ Used(in, out) \in 0 .. BufLen - 1
         /\ Contents(buf, in, out) \in Seq(Byte)
         /\ Len(Contents(buf, in, out)) = Used(in, out)
         /\ \A i \in 1 .. Used(in, out) :
              Contents(buf, in, out)[i] = buf[Modulo(out + i - 1)]
<1>1. Used(in, out) \in 0 .. BufLen - 1
  BY Constants, SMT DEF Used, Slots
<1>2. ASSUME NEW i \in 1 .. Used(in, out)
      PROVE  buf[Modulo(out + i - 1)] \in Byte
  <2>1. out + i - 1 \in Nat
    BY <1>1, Constants, SMT DEF Slots
  <2> QED BY <2>1, ModuloIsSlot
<1>3. Contents(buf, in, out) \in [1 .. Used(in, out) -> Byte]
  BY <1>2 DEF Contents
<1>4. Contents(buf, in, out) \in Seq(Byte)
  BY <1>1, <1>3, SeqDef
<1> QED BY <1>1, <1>3, <1>4, LenProperties DEF Contents

\* How many there are then.
LEMMA UsedAfterPut ==
  ASSUME NEW in \in Slots, NEW out \in Slots, NEW m \in Nat \ {0},
         in + m <= BufLen, Used(in, out) + m <= BufLen - 1
  PROVE  /\ Modulo(in + m) \in Slots
         /\ Modulo(in + m) = IF in + m < BufLen THEN in + m ELSE 0
         /\ Used(Modulo(in + m), out) = Used(in, out) + m
<1>1. m \in 0 .. BufLen
  BY Constants, SMT DEF Slots
<1>2. Modulo(in + m) = IF in + m < BufLen THEN in + m ELSE in + m - BufLen
  BY <1>1, Wrapped
<1>3. CASE in + m < BufLen
  BY <1>2, <1>3, Constants, SMT DEF Used, Slots
<1>4. CASE in + m = BufLen
  <2>1. Modulo(in + m) = 0
    BY <1>2, <1>4, Constants, SMT DEF Slots
  <2>2. in >= out /\ out > 0
    BY <1>4, Constants, SMT DEF Used, Slots
  <2> QED BY <1>4, <2>1, <2>2, Constants, SMT DEF Used, Slots
<1> QED BY <1>3, <1>4, Constants, SMT DEF Slots

\* The ring new is buf with the m bytes of s behind the last one, in front of
\* the array's end and with a slot to spare.
Written(new, buf, in, out, m, s) ==
  /\ in \in Slots /\ out \in Slots /\ m \in Nat \ {0} /\ s \in [1 .. m -> Byte]
  /\ in + m <= BufLen /\ Used(in, out) + m <= BufLen - 1
  /\ buf \in [Slots -> Byte] /\ new \in [Slots -> Byte]
  /\ \A i \in Slots : new[i] = IF i \in in .. in + m - 1
                                  THEN s[i - in + 1] ELSE buf[i]

LEMMA PutContents ==
  ASSUME NEW new, NEW buf, NEW in, NEW out, NEW m, NEW s,
         Written(new, buf, in, out, m, s)
  PROVE  /\ Contents(new, Modulo(in + m), out) = Contents(buf, in, out) \o s
         /\ Used(Modulo(in + m), out) = Used(in, out) + m
<1>0. /\ in \in Slots /\ out \in Slots /\ m \in Nat \ {0} /\ s \in [1 .. m -> Byte]
      /\ in + m <= BufLen /\ Used(in, out) + m <= BufLen - 1
      /\ buf \in [Slots -> Byte] /\ new \in [Slots -> Byte]
  BY DEF Written
<1> DEFINE old == Contents(buf, in, out)
           u   == Used(in, out)
           end == Modulo(in + m)
<1>1. /\ end \in Slots /\ Used(end, out) = u + m
      /\ end = IF in + m < BufLen THEN in + m ELSE 0
  BY <1>0, UsedAfterPut
<1>2. u \in 0 .. BufLen - 1 /\ u + m \in Nat
  BY <1>0, ContentsAre, Constants, SMT
<1>3. s \in Seq(Byte) /\ Len(s) = m
  <2>1. s \in Seq(Byte)
    BY <1>0, SeqDef
  <2> QED BY <2>1, <1>0, LenProperties
<1>4. /\ old \in Seq(Byte) /\ Len(old) = u
      /\ \A i \in 1 .. u : old[i] = buf[Modulo(out + i - 1)]
  BY <1>0, ContentsAre
<1> DEFINE later == Contents(new, end, out)
<1>5. /\ later \in Seq(Byte) /\ Len(later) = u + m
      /\ \A i \in 1 .. u + m : later[i] = new[Modulo(out + i - 1)]
  <2>1. /\ Used(end, out) \in 0 .. BufLen - 1
        /\ later \in Seq(Byte)
        /\ Len(later) = Used(end, out)
        /\ \A i \in 1 .. Used(end, out) : later[i] = new[Modulo(out + i - 1)]
    <3> HIDE DEF end
    <3> QED BY ONLY <1>0, <1>1, ContentsAre
  <2> QED BY ONLY <1>1, <2>1
<1>6. /\ old \o s \in Seq(Byte) /\ Len(old \o s) = u + m
      /\ \A i \in 1 .. u + m :
           (old \o s)[i] = IF i <= u THEN old[i] ELSE s[i - u]
  <2>1. /\ old \o s \in Seq(Byte)
        /\ Len(old \o s) = Len(old) + Len(s)
        /\ \A i \in 1 .. Len(old) + Len(s) :
             (old \o s)[i] = IF i <= Len(old) THEN old[i] ELSE s[i - Len(old)]
    <3> HIDE DEF old
    <3> QED BY ONLY <1>3, <1>4, ConcatProperties
  <2>2. Len(old) = u /\ Len(s) = m
    BY ONLY <1>3, <1>4
  <2> HIDE DEF old, u
  <2> QED BY ONLY <2>1, <2>2
<1>7. ASSUME NEW i \in 1 .. u + m
      PROVE  later[i] = (old \o s)[i]
  <2> DEFINE p == Modulo(out + i - 1)
  <2>1. /\ i - 1 \in 0 .. BufLen /\ out + (i - 1) = out + i - 1
        /\ Modulo(out + i - 1) = IF out + i - 1 < BufLen THEN out + i - 1
                                 ELSE out + i - 1 - BufLen
    <3>1. i - 1 \in 0 .. BufLen /\ out + (i - 1) = out + i - 1
      BY <1>0, <1>2, Constants, SMT DEF Slots
    <3>2. Modulo(out + (i - 1)) = IF out + (i - 1) < BufLen THEN out + (i - 1)
                                  ELSE out + (i - 1) - BufLen
      BY <1>0, <3>1, Wrapped
    <3> QED BY <3>1, <3>2
  <2>2. p \in Slots
    BY <1>0, <2>1, <1>2, Constants, SMT DEF Slots
  <2>3. CASE i <= u
    <3>1. p \notin in .. in + m - 1
      BY <1>0, <2>1, <2>3, <1>2, Constants, SMT DEF Used, Slots
    <3>2. new[p] = buf[p]
      BY <2>2, <3>1 DEF Written
    <3>3. i \in 1 .. u
      BY <1>0, <1>2, <2>3, SMT
    <3> HIDE DEF u, old, later, p
    <3> QED BY <1>4, <1>5, <1>6, <2>3, <3>2, <3>3 DEF p
  <2>4. CASE i > u
    <3>1. p \in in .. in + m - 1 /\ p - in + 1 = i - u
      BY <1>0, <2>1, <2>4, <1>2, Constants, SMT DEF Used, Slots
    <3>2. new[p] = s[i - u]
      BY <2>2, <3>1 DEF Written
    <3>3. ~ (i <= u)
      BY <2>4, <1>2, SMT
    <3> QED BY <1>5, <1>6, <3>2, <3>3
  <2>5. i <= u \/ i > u
    BY <1>0, <1>2, SMT
  <2> QED BY <2>3, <2>4, <2>5
<1>8. later = old \o s
  <2> HIDE DEF later, old, u
  <2> QED BY <1>5, <1>6, <1>7, SeqEqual
<1> QED BY <1>1, <1>8

\* Bytes taken from the front.
LEMMA TakeContents ==
  ASSUME NEW buf \in [Slots -> Byte], NEW in \in Slots, NEW out \in Slots,
         NEW m \in 1 .. Used(in, out)
  PROVE  /\ Contents(buf, in, Modulo(out + m))
              = SubSeq(Contents(buf, in, out), m + 1, Used(in, out))
         /\ Used(in, Modulo(out + m)) = Used(in, out) - m
<1> DEFINE old   == Contents(buf, in, out)
           u     == Used(in, out)
           front == Modulo(out + m)
<1>1. u \in 0 .. BufLen - 1 /\ m \in 0 .. BufLen /\ u - m \in Nat
  BY Constants, SMT DEF Used, Slots
<1>2. /\ front = IF out + m < BufLen THEN out + m ELSE out + m - BufLen
      /\ front \in Slots
  BY <1>1, Wrapped, Constants, SMT DEF Slots
<1>3. Used(in, front) = u - m
  BY <1>1, <1>2, Constants, SMT DEF Used, Slots
<1>4. /\ old \in Seq(Byte) /\ Len(old) = u
      /\ \A i \in 1 .. u : old[i] = buf[Modulo(out + i - 1)]
  BY ContentsAre
<1>5. /\ Contents(buf, in, front) \in Seq(Byte)
      /\ Len(Contents(buf, in, front)) = u - m
      /\ \A i \in 1 .. u - m :
           Contents(buf, in, front)[i] = buf[Modulo(front + i - 1)]
  <2>1. /\ Used(in, front) \in 0 .. BufLen - 1
        /\ Contents(buf, in, front) \in Seq(Byte)
        /\ Len(Contents(buf, in, front)) = Used(in, front)
        /\ \A i \in 1 .. Used(in, front) :
             Contents(buf, in, front)[i] = buf[Modulo(front + i - 1)]
    <3> HIDE DEF front
    <3> QED BY ONLY <1>2, ContentsAre, buf \in [Slots -> Byte], in \in Slots
  <2> QED BY ONLY <1>3, <2>1
<1>6. /\ SubSeq(old, m + 1, u) \in Seq(Byte)
      /\ Len(SubSeq(old, m + 1, u)) = u - m
      /\ \A i \in 1 .. u - m : SubSeq(old, m + 1, u)[i] = old[m + 1 + i - 1]
  <2>1. \A i \in m + 1 .. u : old[i] \in Byte
    <3> TAKE i \in m + 1 .. u
    <3>1. i \in 1 .. Len(old)
      BY <1>1, <1>4, SMT
    <3> QED BY <3>1, <1>4, ElementOfSeq
  <2>2. m + 1 \in Int /\ u \in Int /\ u - (m + 1) + 1 = u - m
        /\ (m + 1 <= u \/ u - m = 0)
    BY <1>1, SMT
  <2>3. /\ SubSeq(old, m + 1, u) \in Seq(Byte)
        /\ Len(SubSeq(old, m + 1, u))
             = IF m + 1 <= u THEN u - (m + 1) + 1 ELSE 0
        /\ \A i \in 1 .. u - (m + 1) + 1 :
             SubSeq(old, m + 1, u)[i] = old[m + 1 + i - 1]
    <3> HIDE DEF old, u
    <3> QED BY <2>1, <2>2, SubSeqProperties
  <2> QED BY <2>2, <2>3
<1>7. ASSUME NEW i \in 1 .. u - m
      PROVE  Contents(buf, in, front)[i] = SubSeq(old, m + 1, u)[i]
  <2>1. /\ i - 1 \in 0 .. BufLen /\ front + (i - 1) = front + i - 1
        /\ m + i - 1 \in 0 .. BufLen /\ out + (m + i - 1) = out + (m + i) - 1
        /\ m + i \in 1 .. u /\ m + 1 + i - 1 = m + i
    BY <1>1, <1>2, Constants, SMT DEF Slots
  <2>2. Modulo(front + (i - 1)) = IF front + (i - 1) < BufLen THEN front + (i - 1)
                                  ELSE front + (i - 1) - BufLen
    BY <1>2, <2>1, Wrapped
  <2>3. Modulo(out + (m + i - 1))
          = IF out + (m + i - 1) < BufLen THEN out + (m + i - 1)
            ELSE out + (m + i - 1) - BufLen
    BY <2>1, Wrapped
  <2>4. Modulo(front + i - 1) = Modulo(out + (m + i) - 1)
    <3>1. Modulo(front + (i - 1)) = Modulo(out + (m + i - 1))
      BY <1>1, <1>2, <2>1, <2>2, <2>3, Constants, SMT DEF Slots
    <3> QED BY <2>1, <3>1
  <2>5. old[m + i] = buf[Modulo(out + (m + i) - 1)]
    BY <1>4, <2>1
  <2> QED BY <1>5, <1>6, <2>1, <2>4, <2>5
<1> QED BY <1>3, <1>5, <1>6, <1>7, SeqEqual

\* A sequence is its first element and the others.
LEMMA HeadThenTail ==
  ASSUME NEW s \in Seq(Byte), s # <<>>
  PROVE  s = <<Head(s)>> \o Tail(s) /\ Head(s) \in Byte /\ Tail(s) \in Seq(Byte)
<1>1. Len(s) \in Nat \ {0} /\ Head(s) = s[1]
  BY EmptySeq
<1>2. Tail(s) = SubSeq(s, 2, Len(s)) /\ Head(s) \in Byte /\ Tail(s) \in Seq(Byte)
  BY TailIsSubSeq, HeadTailProperties
<1>3. 1 \in 1 .. Len(s) /\ Len(s) \in 1 .. Len(s) /\ 1 + 1 = 2
  BY <1>1, SMT
<1>4. SubSeq(s, 1, Len(s)) = <<s[1]>> \o SubSeq(s, 1 + 1, Len(s))
  BY <1>3, SubSeqRecursiveFirst
<1>5. SubSeq(s, 1, Len(s)) = s
  BY SubSeqFull
<1> QED BY <1>1, <1>2, <1>3, <1>4, <1>5

\* What is dropped from the front of a pipe is dropped from its first part.
LEMMA DropFirst ==
  ASSUME NEW a \in Seq(Byte), NEW c \in Seq(Byte), NEW m \in 1 .. Len(a)
  PROVE  SubSeq(a, m + 1, Len(a)) \o c = SubSeq(a \o c, m + 1, Len(a \o c))
<1> DEFINE la == Len(a)
           lc == Len(c)
           rest == SubSeq(a, m + 1, la)
           all == a \o c
<1>1. la \in Nat /\ lc \in Nat /\ m \in Nat /\ m >= 1 /\ m <= la
  BY LenProperties, SMT
<1>2. /\ all \in Seq(Byte) /\ Len(all) = la + lc
      /\ \A i \in 1 .. la + lc : all[i] = IF i <= la THEN a[i] ELSE c[i - la]
  BY ConcatProperties
<1>3. /\ rest \in Seq(Byte) /\ Len(rest) = la - m
      /\ \A i \in 1 .. la - m : rest[i] = a[m + i]
  <2>1. \A i \in m + 1 .. la : a[i] \in Byte
    <3> TAKE i \in m + 1 .. la
    <3>1. i \in 1 .. Len(a)
      BY <1>1, SMT
    <3> QED BY <3>1, ElementOfSeq
  <2>2. m + 1 \in Int /\ la \in Int
    BY <1>1, SMT
  <2>3. /\ rest \in Seq(Byte)
        /\ Len(rest) = IF m + 1 <= la THEN la - (m + 1) + 1 ELSE 0
        /\ \A i \in 1 .. la - (m + 1) + 1 : rest[i] = a[m + 1 + i - 1]
    <3> HIDE DEF la
    <3> QED BY ONLY <2>1, <2>2, SubSeqProperties
  <2>4. /\ (IF m + 1 <= la THEN la - (m + 1) + 1 ELSE 0) = la - m
        /\ la - (m + 1) + 1 = la - m
        /\ \A i \in 1 .. la - m : m + 1 + i - 1 = m + i
    <3> HIDE DEF la
    <3> QED BY ONLY <1>1, SMT
  <2> HIDE DEF la, rest
  <2> QED BY ONLY <2>3, <2>4
<1> DEFINE n0 == Len(all)
           drop == SubSeq(all, m + 1, n0)
<1>4. /\ drop \in Seq(Byte) /\ Len(drop) = la + lc - m
      /\ \A i \in 1 .. la + lc - m : drop[i] = all[m + i]
  <2> HIDE DEF la, lc
  <2>1. \A i \in m + 1 .. n0 : all[i] \in Byte
    <3> TAKE i \in m + 1 .. n0
    <3>1. i \in 1 .. n0
      BY <1>1, <1>2, SMT
    <3> QED BY <3>1, <1>2, ElementOfSeq
  <2>2. m + 1 \in Int /\ n0 \in Int /\ n0 = la + lc
    BY <1>1, <1>2, SMT
  <2>3. /\ drop \in Seq(Byte)
        /\ Len(drop) = IF m + 1 <= n0 THEN n0 - (m + 1) + 1 ELSE 0
        /\ \A i \in 1 .. n0 - (m + 1) + 1 : drop[i] = all[m + 1 + i - 1]
    <3> HIDE DEF n0, all
    <3> QED BY ONLY <2>1, <2>2, SubSeqProperties
  <2> HIDE DEF n0, all, drop
  <2>4. /\ (IF m + 1 <= n0 THEN n0 - (m + 1) + 1 ELSE 0) = la + lc - m
        /\ n0 - (m + 1) + 1 = la + lc - m
        /\ \A i \in 1 .. la + lc - m : m + 1 + i - 1 = m + i
    BY ONLY <1>1, <2>2, SMT
  <2> QED BY ONLY <2>3, <2>4
<1>5. /\ rest \o c \in Seq(Byte) /\ Len(rest \o c) = la - m + lc
      /\ \A i \in 1 .. la - m + lc :
           (rest \o c)[i] = IF i <= la - m THEN rest[i] ELSE c[i - (la - m)]
  <2>1. /\ rest \o c \in Seq(Byte) /\ Len(rest \o c) = Len(rest) + Len(c)
        /\ \A i \in 1 .. Len(rest) + Len(c) :
             (rest \o c)[i] = IF i <= Len(rest) THEN rest[i] ELSE c[i - Len(rest)]
    <3> HIDE DEF rest
    <3> QED BY ONLY <1>3, c \in Seq(Byte), ConcatProperties
  <2>2. Len(rest) = la - m /\ Len(c) = lc
    BY <1>3
  <2> HIDE DEF rest, la, lc
  <2> QED BY ONLY <2>1, <2>2
<1> HIDE DEF la, lc, rest, all, drop, n0
<1>6. Len(rest \o c) = Len(drop)
  BY ONLY <1>1, <1>4, <1>5, SMT
<1>7. ASSUME NEW i \in 1 .. Len(rest \o c)
      PROVE  (rest \o c)[i] = drop[i]
  <2>1. PICK k \in 1 .. la + lc : k = m + i
    BY <1>1, <1>5, SMT
  <2>2. /\ i \in 1 .. la - m + lc /\ i \in 1 .. la + lc - m
        /\ i <= la - m <=> k <= la
        /\ i <= la - m => i \in 1 .. la - m
        /\ i - (la - m) = k - la
    BY <2>1, <1>1, <1>5, SMT
  <2>3. drop[i] = all[k]
    BY ONLY <1>4, <2>1, <2>2
  <2>4. all[k] = IF k <= la THEN a[k] ELSE c[k - la]
    BY ONLY <1>2, <2>1
  <2>5. CASE i <= la - m
    <3>1. rest[i] = a[k]
      BY ONLY <1>3, <2>1, <2>2, <2>5
    <3> QED BY ONLY <1>5, <2>2, <2>3, <2>4, <2>5, <3>1
  <2>6. CASE ~ (i <= la - m)
    BY ONLY <1>5, <2>2, <2>3, <2>4, <2>6
  <2> QED BY <2>5, <2>6
<1>8. rest \o c = drop
  BY <1>4, <1>5, <1>6, <1>7, SeqEqual
<1> QED BY <1>8 DEF rest, drop, all, la, n0

\* The oldest byte of a buffer that is not empty, and what is behind it.
LEMMA FirstContents ==
  ASSUME NEW buf \in [Slots -> Byte], NEW in \in Slots, NEW out \in Slots,
         in # out
  PROVE  /\ Contents(buf, in, out)
              = <<buf[out]>> \o Contents(buf, in, Modulo(out + 1))
         /\ Used(in, Modulo(out + 1)) = Used(in, out) - 1
         /\ Used(in, out) > 0 /\ Modulo(out + 1) \in Slots
<1> DEFINE old == Contents(buf, in, out)
<1>1. Used(in, out) > 0 /\ Used(in, out) \in Nat
  BY Constants, SMT DEF Used, Slots
<1>2. /\ old \in Seq(Byte) /\ Len(old) = Used(in, out)
      /\ old[1] = buf[Modulo(out + 1 - 1)]
  <2>1. 1 \in 1 .. Used(in, out)
    BY <1>1
  <2> QED BY <2>1, ContentsAre
<1>3. Modulo(out + 1 - 1) = out /\ out + 1 \in Nat
  BY Constants, SMT DEF Modulo, Slots
<1>4. 1 \in 1 .. Used(in, out) /\ 1 + 1 = 2
  BY <1>1
<1>5. /\ Contents(buf, in, Modulo(out + 1)) = SubSeq(old, 2, Used(in, out))
      /\ Used(in, Modulo(out + 1)) = Used(in, out) - 1
  BY <1>4, TakeContents
<1>6. old # <<>>
  BY <1>1, <1>2, EmptySeq
<1>7. Tail(old) = SubSeq(old, 2, Len(old)) /\ Head(old) = old[1]
  BY <1>2, <1>6, TailIsSubSeq
<1>8. old = <<Head(old)>> \o Tail(old)
  <2> HIDE DEF old
  <2> QED BY <1>2, <1>6, HeadThenTail
<1>9. Modulo(out + 1) \in Slots
  BY <1>3, ModuloIsSlot
<1> QED BY <1>1, <1>2, <1>3, <1>5, <1>7, <1>8, <1>9

\* What there is room for, and what can be read, is in one piece.
LEMMA RoomFits ==
  ASSUME NEW in \in Slots, NEW out \in Slots
  PROVE  /\ in + Room(in, out) <= BufLen
         /\ Used(in, out) + Room(in, out) <= BufLen - 1
         /\ Filled(in, out) <= Used(in, out)
BY Constants, SMT DEF Room, Used, Filled, Slots

-----------------------------------------------------------------------------
(***************************************************************************)
(* The invariant that the pipes need: Inv, and that what is moved fits.    *)
(***************************************************************************)

(***************************************************************************)
(* What is put somewhere fits: a write into the slots that were free when  *)
(* they were counted, a read from those that were filled, and the output   *)
(* routine into the room that the FIFO had.                                *)
(***************************************************************************)
WriteFits ==
  pc = "wput" => /\ n > 0 /\ tx_in + n <= BufLen
                 /\ Used(tx_in, tx_out) + n <= BufLen - 1
ReadFits == pc = "rtake" => n > 0 /\ n <= Used(rx_in, rx_out)
SendFits == space + Len(toSend) <= Depth

PipeInv == Inv /\ WriteFits /\ ReadFits /\ SendFits

LEMMA InitPipeInv == Init => PipeInv
<1>1. Init => WriteFits /\ ReadFits
  BY DEF Init, WriteFits, ReadFits
<1>2. Init => SendFits
  <2>1. Len(<<>>) = 0
    BY EmptySeq
  <2> QED BY <2>1, Constants, SMT DEF Init, SendFits
<1> QED BY <1>1, <1>2, InitInv DEF PipeInv

\* Free slots are not taken by anyone else before a write fills them.
LEMMA WriteFitsKept == Inv /\ WriteFits /\ Next => WriteFits'
<1> SUFFICES ASSUME Inv, WriteFits, Next PROVE WriteFits'
  OBVIOUS
<1>1. /\ {rx_in, rx_out, tx_in, tx_out} \subseteq Slots
      /\ count \in Nat /\ n \in Nat
  BY Ranges DEF Inv
<1>2. CASE WriteLook
  <2> SUFFICES ASSUME pc' = "wput"
               PROVE  /\ n' > 0 /\ tx_in + n' <= BufLen
                      /\ Used(tx_in, tx_out) + n' <= BufLen - 1
    BY <1>2 DEF WriteFits, WriteLook, txBuffer
  <2>1. n' # 0 /\ n' = Least(Room(tx_in, tx_out), count)
    BY <1>2 DEF WriteLook
  <2>2. Room(tx_in, tx_out) \in Nat
    BY <1>1, RoomIsGenuine
  <2>3. n' \in Nat /\ n' <= Room(tx_in, tx_out)
    BY <1>1, <2>1, <2>2, LeastOf
  <2>4. /\ tx_in + Room(tx_in, tx_out) <= BufLen
        /\ Used(tx_in, tx_out) + Room(tx_in, tx_out) <= BufLen - 1
    BY <1>1, RoomFits
  <2>5. Used(tx_in, tx_out) \in Int /\ tx_in \in Int
    BY <1>1, Constants, SMT DEF Used, Slots
  <2> QED BY <2>1, <2>2, <2>3, <2>4, <2>5, Constants, SMT
<1>3. CASE \/ Begin \/ WritePut \/ ReadLook \/ ReadTake
           \/ SpinEnds("wspin", tx_out, "wcheck") \/ SpinEnds("rspin", rx_in, "rcheck")
           \/ Recheck("wcheck", tx_out, "wlook") \/ Recheck("rcheck", rx_in, "rlook")
           \/ CloseEnds \/ Lock \/ Load \/ Store \/ Tell \/ Unlock
  BY <1>3, CallAssumption
     DEF Begin, WritePut, ReadLook, ReadTake, Take, SpinEnds, Recheck, CloseEnds, Lock,
         Load, Store, Tell, Unlock, Goto, Return, Running, WriteFits
<1>4. CASE \/ SetTimeout \/ Enter \/ ReadControl \/ Receive \/ Received
           \/ HostTimeout \/ HostPolls
  BY <1>4 DEF SetTimeout, Enter, ReadControl, Receive, Received, HostTimeout,
              HostPolls, txBuffer, locals, WriteFits
<1>5. CASE Send
  <2>1. CASE space > 0 /\ tx_out # tx_in
    <3>1. /\ Used(tx_in, Modulo(tx_out + 1)) = Used(tx_in, tx_out) - 1
          /\ Used(tx_in, tx_out) > 0
      BY <1>1, <2>1, FirstContents DEF Inv, TypeOK
    <3>2. Used(tx_in, tx_out) \in Int
      BY <1>1, Constants, SMT DEF Used, Slots
    <3>3. /\ tx_out' = Modulo(tx_out + 1)
          /\ UNCHANGED <<tx_in, pc, n>>
      BY <1>5, <2>1 DEF Send, SendWhile, locals
    <3> QED BY <1>1, <3>1, <3>2, <3>3, Constants, SMT DEF WriteFits
  <2>2. CASE ~ (space > 0 /\ tx_out # tx_in)
    BY <1>5, <2>2 DEF Send, SendWhile, WriteFits, locals
  <2> QED BY <2>1, <2>2
<1> QED BY <1>2, <1>3, <1>4, <1>5 DEF Next, Thread, Interrupt

\* Filled slots are not taken by anyone else before a read empties them.
LEMMA ReadFitsKept == Inv /\ ReadFits /\ Next => ReadFits'
<1> SUFFICES ASSUME Inv, ReadFits, Next PROVE ReadFits'
  OBVIOUS
<1>1. /\ {rx_in, rx_out, tx_in, tx_out} \subseteq Slots
      /\ count \in Nat /\ n \in Nat
  BY Ranges DEF Inv
<1>2. CASE ReadLook
  <2> SUFFICES ASSUME pc' = "rtake"
               PROVE  n' > 0 /\ n' <= Used(rx_in, rx_out)
    BY <1>2 DEF ReadFits, ReadLook, rxBuffer
  <2>1. n' > 0 /\ n' = Least(Filled(rx_in, rx_out), count)
    BY <1>2 DEF ReadLook, Return
  <2>2. Filled(rx_in, rx_out) \in Nat /\ Filled(rx_in, rx_out) <= Used(rx_in, rx_out)
    BY <1>1, FilledIsGenuine, RoomFits
  <2>3. n' \in Nat /\ n' <= Filled(rx_in, rx_out)
    BY <1>1, <2>1, <2>2, LeastOf
  <2>4. Used(rx_in, rx_out) \in Int
    BY <1>1, Constants, SMT DEF Used, Slots
  <2> QED BY <2>1, <2>2, <2>3, <2>4, SMT
<1>3. CASE \/ Begin \/ WriteLook \/ WritePut \/ ReadTake
           \/ SpinEnds("wspin", tx_out, "wcheck") \/ SpinEnds("rspin", rx_in, "rcheck")
           \/ Recheck("wcheck", tx_out, "wlook") \/ Recheck("rcheck", rx_in, "rlook")
           \/ CloseEnds \/ Lock \/ Load \/ Store \/ Tell \/ Unlock
  BY <1>3, CallAssumption
     DEF Begin, WriteLook, WritePut, ReadTake, Take, SpinEnds, Recheck, CloseEnds, Lock,
         Load, Store, Tell, Unlock, Goto, Return, Running, ReadFits
<1>4. CASE \/ SetTimeout \/ Enter \/ ReadControl \/ Send \/ Received
           \/ HostTimeout \/ HostPolls
  BY <1>4 DEF SetTimeout, Enter, ReadControl, Send, SendWhile, Received,
              HostTimeout, HostPolls, rxBuffer, locals, ReadFits
<1>5. CASE Receive
  <2>1. CASE RxFull \/ received = <<>>
    BY <1>5, <2>1 DEF Receive, ReadFits, rxBuffer, locals
  <2>2. CASE ~RxFull /\ received # <<>>
    <3>1. Used(Modulo(rx_in + 1), rx_out) = Used(rx_in, rx_out) + 1
      <4>1. Modulo(rx_in + 1) # rx_out
        BY <2>2 DEF RxFull
      <4> QED BY <1>1, <4>1, NextSlot, Constants, SMT DEF Used, Slots
    <3>2. Used(rx_in, rx_out) \in Int
      BY <1>1, Constants, SMT DEF Used, Slots
    <3>3. /\ rx_in' = Modulo(rx_in + 1)
          /\ UNCHANGED <<rx_out, pc, n>>
      BY <1>5, <2>2 DEF Receive, locals
    <3> QED BY <1>1, <3>1, <3>2, <3>3, SMT DEF ReadFits
  <2> QED BY <2>1, <2>2
<1> QED BY <1>2, <1>3, <1>4, <1>5 DEF Next, Thread, Interrupt

\* The output routine never counts on room that the FIFO does not have: the
\* host only makes more of it.
LEMMA SendFitsKept == Inv /\ SendFits /\ Next => SendFits'
<1> SUFFICES ASSUME Inv, SendFits, Next PROVE SendFits'
  OBVIOUS
<1>1. /\ space \in Nat /\ toSend \in Seq(Byte) /\ Len(toSend) \in Nat
      /\ Len(toSend) <= Depth
  BY Constants, LenProperties, SMT DEF Inv, TypeOK
<1>2. CASE Begin \/ SetTimeout \/ Thread
  BY <1>2, RoutineStands DEF SendFits, routine
<1>3. CASE Enter \/ Receive \/ Received \/ HostTimeout
  BY <1>3 DEF Enter, Receive, Received, HostTimeout, routine, device, SendFits
<1>4. CASE ReadControl
  <2>1. space' = Depth - Len(toSend) \/ space' = 0
    BY <1>4 DEF ReadControl
  <2>2. toSend' = toSend
    BY <1>4 DEF ReadControl, device
  <2> QED BY <1>1, <2>1, <2>2, Constants, SMT DEF SendFits
<1>5. CASE Send
  <2>1. CASE space > 0 /\ tx_out # tx_in
    <3>1. Len(toSend) < Depth
      BY <1>1, <2>1, Constants, SMT DEF SendFits
    <3>2. toSend' = Append(toSend, tx_buf[tx_out]) /\ space' = space - 1
      BY <1>5, <2>1, <3>1 DEF Send, SendWhile, Push
    <3>3. Len(toSend') = Len(toSend) + 1
      BY <1>1, <3>2, AppendProperties DEF Inv, TypeOK
    <3> QED BY <1>1, <3>2, <3>3, Constants, SMT DEF SendFits
  <2>2. CASE ~ (space > 0 /\ tx_out # tx_in)
    <3>1. space' = 0 /\ toSend' = toSend
      BY <1>5, <2>2 DEF Send, SendWhile
    <3> QED BY <1>1, <3>1, SMT DEF SendFits
  <2> QED BY <2>1, <2>2
<1>6. CASE HostPolls
  <2>1. space' = space /\ toSend' = (IF toSend = <<>> THEN <<>> ELSE Tail(toSend))
    BY <1>6 DEF HostPolls, routine
  <2>2. Len(toSend') \in Nat /\ Len(toSend') <= Len(toSend)
    <3>1. CASE toSend = <<>>
      BY <1>1, <2>1, <3>1
    <3>2. CASE toSend # <<>>
      BY <1>1, <2>1, <3>2, HeadTailProperties, EmptySeq
    <3> QED BY <3>1, <3>2
  <2> QED BY <1>1, <2>1, <2>2, Constants, SMT DEF SendFits
<1> QED BY <1>2, <1>3, <1>4, <1>5, <1>6 DEF Next, Interrupt

LEMMA NextPipeInv == PipeInv /\ [Next]_vars => PipeInv'
<1> SUFFICES ASSUME PipeInv, [Next]_vars PROVE PipeInv'
  OBVIOUS
<1>1. Inv'
  BY NextInv DEF PipeInv
<1>2. CASE Next
  BY <1>1, <1>2, WriteFitsKept, ReadFitsKept, SendFitsKept DEF PipeInv
<1>3. CASE UNCHANGED vars
  BY <1>1, <1>3 DEF PipeInv, WriteFits, ReadFits, SendFits, vars, rxBuffer, txBuffer,
                    device, locals, routine
<1> QED BY <1>2, <1>3

-----------------------------------------------------------------------------
(***************************************************************************)
(* The steps of the driver, the host and the timer are steps of a pipe.    *)
(***************************************************************************)

\* Both pipes are sequences of bytes that are not longer than they may be.
LEMMA PipesAre ==
  ASSUME Inv
  PROVE  /\ rx_buf \in [Slots -> Byte] /\ tx_buf \in [Slots -> Byte]
         /\ {rx_in, rx_out, tx_in, tx_out} \subseteq Slots
         /\ toSend \in Seq(Byte) /\ Len(toSend) \in 0 .. Depth
         /\ received \in Seq(Byte) /\ Len(received) \in 0 .. Depth
         /\ Contents(tx_buf, tx_in, tx_out) \in Seq(Byte)
         /\ Len(Contents(tx_buf, tx_in, tx_out)) = Used(tx_in, tx_out)
         /\ Contents(rx_buf, rx_in, rx_out) \in Seq(Byte)
         /\ Len(Contents(rx_buf, rx_in, rx_out)) = Used(rx_in, rx_out)
         /\ Used(tx_in, tx_out) \in 0 .. BufLen - 1
         /\ Used(rx_in, rx_out) \in 0 .. BufLen - 1
<1>1. /\ rx_buf \in [Slots -> Byte] /\ tx_buf \in [Slots -> Byte]
      /\ {rx_in, rx_out, tx_in, tx_out} \subseteq Slots
      /\ toSend \in Seq(Byte) /\ received \in Seq(Byte)
  BY DEF Inv, TypeOK
<1>2. Len(toSend) \in 0 .. Depth /\ Len(received) \in 0 .. Depth
  BY <1>1, LenProperties, Constants, SMT DEF Inv, TypeOK
<1> QED BY <1>1, <1>2, ContentsAre

\* What is on its way to the host, and what is on its way from it.
OutputPipe == toSend \o Contents(tx_buf, tx_in, tx_out)
InputPipe  == Contents(rx_buf, rx_in, rx_out) \o received

\* write() puts what it copies behind what is there.
LEMMA WritePuts == PipeInv /\ WritePut => Output!Next
<1> SUFFICES ASSUME PipeInv, WritePut PROVE Output!Next
  OBVIOUS
<1>1. Inv /\ n \in Nat \ {0}
  BY Ranges DEF PipeInv, WriteFits, Inv, WritePut, Running
<1>2. PICK put \in [1 .. n -> Byte] :
        tx_buf' = [i \in Slots |-> IF i \in tx_in .. tx_in + n - 1
                                     THEN put[i - tx_in + 1] ELSE tx_buf[i]]
  BY DEF WritePut
<1>3. tx_in + n <= BufLen /\ Used(tx_in, tx_out) + n <= BufLen - 1
  BY DEF PipeInv, WriteFits, WritePut, Running
<1>4. tx_buf' \in [Slots -> Byte]
  <2>1. TypeOK'
    BY ThreadTypes DEF PipeInv, Inv, Thread
  <2> QED BY <2>1 DEF TypeOK
<1>5. /\ tx_buf \in [Slots -> Byte] /\ tx_in \in Slots /\ tx_out \in Slots
      /\ toSend \in Seq(Byte) /\ Contents(tx_buf, tx_in, tx_out) \in Seq(Byte)
      /\ Len(toSend) \in 0 .. Depth
      /\ Len(Contents(tx_buf, tx_in, tx_out)) = Used(tx_in, tx_out)
      /\ Used(tx_in, tx_out) \in 0 .. BufLen - 1
  BY <1>1, PipesAre
<1>6. Written(tx_buf', tx_buf, tx_in, tx_out, n, put)
  BY <1>1, <1>2, <1>3, <1>4, <1>5 DEF Written
<1>7. Contents(tx_buf', Modulo(tx_in + n), tx_out)
        = Contents(tx_buf, tx_in, tx_out) \o put
  <2>1. PICK s : s = put
    OBVIOUS
  <2>2. Written(tx_buf', tx_buf, tx_in, tx_out, n, s)
    BY ONLY <1>6, <2>1
  <2>3. Contents(tx_buf', Modulo(tx_in + n), tx_out)
          = Contents(tx_buf, tx_in, tx_out) \o s
    BY ONLY <2>2, PutContents
  <2> QED BY ONLY <2>1, <2>3
<1>8. UNCHANGED <<toSend, tx_out>> /\ tx_in' = Modulo(tx_in + n)
  BY DEF WritePut, device
<1>9. put \in Seq(Byte) /\ Len(put) = n
  <2>1. put \in Seq(Byte)
    BY <1>1, SeqDef
  <2> QED BY <2>1, <1>1, LenProperties
<1>10. OutputPipe' = OutputPipe \o put
  <2> DEFINE ring == Contents(tx_buf, tx_in, tx_out)
  <2>1. (toSend \o ring) \o put = toSend \o (ring \o put)
    <3> HIDE DEF ring
    <3> QED BY ONLY <1>5, <1>9, ConcatAssociative
  <2> QED BY <1>7, <1>8, <2>1 DEF OutputPipe
<1>11. Len(OutputPipe) + Len(put) <= Depth + BufLen - 1
  <2>1. Len(OutputPipe) = Len(toSend) + Used(tx_in, tx_out)
    BY <1>5, ConcatProperties DEF OutputPipe
  <2> QED BY <2>1, <1>1, <1>3, <1>5, <1>9, Constants, SMT
<1>12. n \in 1 .. Depth + BufLen - 1
  BY <1>1, <1>3, <1>5, Constants, SMT
<1> QED BY <1>10, <1>11, <1>12 DEF OutputPipe, Output!Next, Output!Put

\* The routine hands a byte from the ring to the FIFO: it stays in its place.
LEMMA SendKeeps == PipeInv /\ Send => UNCHANGED OutputPipe
<1> SUFFICES ASSUME PipeInv, Send PROVE UNCHANGED OutputPipe
  OBVIOUS
<1>1. CASE space > 0 /\ tx_out # tx_in
  <2>1. /\ tx_buf \in [Slots -> Byte] /\ tx_in \in Slots /\ tx_out \in Slots
        /\ toSend \in Seq(Byte) /\ Len(toSend) \in 0 .. Depth
    BY PipesAre DEF PipeInv
  <2>2. Len(toSend) < Depth
    BY <1>1, <2>1, Constants, SMT DEF PipeInv, Inv, TypeOK, SendFits
  <2>3. /\ toSend' = Append(toSend, tx_buf[tx_out]) /\ tx_out' = Modulo(tx_out + 1)
        /\ UNCHANGED <<tx_in, tx_buf>>
    BY <1>1, <2>2 DEF Send, SendWhile, Push
  <2>4. /\ Contents(tx_buf, tx_in, tx_out)
             = <<tx_buf[tx_out]>> \o Contents(tx_buf, tx_in, Modulo(tx_out + 1))
        /\ Modulo(tx_out + 1) \in Slots
    BY <1>1, <2>1, FirstContents
  <2>5. tx_buf[tx_out] \in Byte /\ <<tx_buf[tx_out]>> \in Seq(Byte)
    BY <2>1
  <2>6. Contents(tx_buf, tx_in, Modulo(tx_out + 1)) \in Seq(Byte)
    BY <2>1, <2>4, ContentsAre
  <2>7. toSend' = toSend \o <<tx_buf[tx_out]>>
    BY <2>1, <2>3, <2>5, AppendIsConcat
  <2> QED BY <2>1, <2>3, <2>4, <2>5, <2>6, <2>7, ConcatAssociative DEF OutputPipe
<1>2. CASE ~ (space > 0 /\ tx_out # tx_in)
  BY <1>2 DEF Send, SendWhile, OutputPipe
<1> QED BY <1>1, <1>2

\* A host that polls takes the oldest byte, if one has reached the FIFO.
LEMMA PollTakes == PipeInv /\ HostPolls => Output!Next \/ UNCHANGED OutputPipe
<1> SUFFICES ASSUME PipeInv, HostPolls
             PROVE  Output!Next \/ UNCHANGED OutputPipe
  OBVIOUS
<1>1. UNCHANGED <<tx_in, tx_out, tx_buf>>
  BY DEF HostPolls, txBuffer
<1>2. CASE toSend = <<>>
  BY <1>1, <1>2 DEF HostPolls, OutputPipe
<1>3. CASE toSend # <<>>
  <2> DEFINE ring == Contents(tx_buf, tx_in, tx_out)
  <2>1. /\ toSend \in Seq(Byte) /\ ring \in Seq(Byte)
        /\ Len(toSend) \in 0 .. Depth /\ Len(ring) \in 0 .. BufLen - 1
    BY PipesAre DEF PipeInv
  <2>2. Len(toSend) \in Nat \ {0} /\ 1 \in 1 .. Len(toSend) /\ 1 + 1 = 2
    BY <1>3, <2>1, EmptySeq
  <2>3. toSend' = SubSeq(toSend, 2, Len(toSend))
    BY <1>3, <2>1, TailIsSubSeq DEF HostPolls
  <2>4. SubSeq(toSend, 1 + 1, Len(toSend)) \o ring
          = SubSeq(toSend \o ring, 1 + 1, Len(toSend \o ring))
    <3> HIDE DEF ring
    <3> QED BY <2>1, <2>2, DropFirst
  <2>5. OutputPipe' = SubSeq(OutputPipe, 1 + 1, Len(OutputPipe))
    BY <1>1, <2>2, <2>3, <2>4 DEF OutputPipe
  <2>6. 1 <= Len(OutputPipe) /\ 1 \in 1 .. Depth + BufLen - 1
    <3>1. Len(OutputPipe) = Len(toSend) + Len(ring)
      BY <2>1, ConcatProperties DEF OutputPipe
    <3> QED BY <2>1, <2>2, <3>1, Constants, SMT
  <2> QED BY <2>5, <2>6 DEF OutputPipe, Output!Next, Output!Get
<1> QED BY <1>2, <1>3

\* Every step puts bytes into the output, takes some or leaves it alone.
LEMMA OutputStep == PipeInv /\ [Next]_vars => [Output!Next]_OutputPipe
<1> SUFFICES ASSUME PipeInv, [Next]_vars PROVE Output!Next \/ UNCHANGED OutputPipe
  OBVIOUS
<1>1. CASE WritePut \/ Send \/ HostPolls
  BY <1>1, WritePuts, SendKeeps, PollTakes
<1>2. CASE \/ Begin \/ SetTimeout \/ WriteLook \/ ReadLook \/ ReadTake
           \/ SpinEnds("wspin", tx_out, "wcheck") \/ SpinEnds("rspin", rx_in, "rcheck")
           \/ Recheck("wcheck", tx_out, "wlook") \/ Recheck("rcheck", rx_in, "rlook")
           \/ CloseEnds \/ Lock \/ Load \/ Store \/ Tell \/ Unlock
  BY <1>2 DEF Begin, SetTimeout, WriteLook, ReadLook, ReadTake, Take, SpinEnds,
              Recheck, CloseEnds, Lock, Load, Store, Tell, Unlock, txBuffer, device,
              OutputPipe
<1>3. CASE Enter \/ ReadControl \/ Receive \/ Received \/ HostTimeout
  BY <1>3 DEF Enter, ReadControl, Receive, Received, HostTimeout, txBuffer, device,
              OutputPipe
<1>4. CASE UNCHANGED vars
  BY <1>4 DEF vars, txBuffer, device, OutputPipe
<1> QED BY <1>1, <1>2, <1>3, <1>4 DEF Next, Thread, Interrupt

\* read() takes from the front.
LEMMA ReadTakes == PipeInv /\ ReadTake => Input!Next
<1> SUFFICES ASSUME PipeInv, ReadTake PROVE Input!Next
  OBVIOUS
<1> DEFINE ring == Contents(rx_buf, rx_in, rx_out)
<1>1. /\ rx_buf \in [Slots -> Byte] /\ rx_in \in Slots /\ rx_out \in Slots
      /\ received \in Seq(Byte) /\ ring \in Seq(Byte)
      /\ Len(received) \in 0 .. Depth /\ Len(ring) = Used(rx_in, rx_out)
      /\ Used(rx_in, rx_out) \in 0 .. BufLen - 1
  BY PipesAre DEF PipeInv
<1>2. n \in 1 .. Used(rx_in, rx_out)
  BY <1>1, Ranges, SMT DEF PipeInv, Inv, ReadFits, ReadTake, Take, Running
<1>3. /\ rx_out' = Modulo(rx_out + n)
      /\ UNCHANGED <<rx_in, rx_buf, received>>
  BY DEF ReadTake, Take, device
<1>4. Contents(rx_buf, rx_in, Modulo(rx_out + n))
        = SubSeq(ring, n + 1, Used(rx_in, rx_out))
  BY <1>1, <1>2, TakeContents
<1>5. SubSeq(ring, n + 1, Len(ring)) \o received
        = SubSeq(ring \o received, n + 1, Len(ring \o received))
  <2>1. n \in 1 .. Len(ring)
    BY <1>1, <1>2
  <2> HIDE DEF ring
  <2> QED BY <1>1, <2>1, DropFirst
<1>6. InputPipe' = SubSeq(InputPipe, n + 1, Len(InputPipe))
  BY <1>1, <1>3, <1>4, <1>5 DEF InputPipe
<1>7. n <= Len(InputPipe) /\ n \in 1 .. Depth + BufLen - 1
  <2>1. Len(InputPipe) = Len(ring) + Len(received)
    BY <1>1, ConcatProperties DEF InputPipe
  <2> QED BY <1>1, <1>2, <2>1, Constants, SMT
<1> QED BY <1>6, <1>7 DEF InputPipe, Input!Next, Input!Get

\* The routine hands a byte from the FIFO to the ring, where there is room.
LEMMA ReceiveKeeps == PipeInv /\ Receive => UNCHANGED InputPipe
<1> SUFFICES ASSUME PipeInv, Receive PROVE UNCHANGED InputPipe
  OBVIOUS
<1>1. CASE RxFull \/ received = <<>>
  BY <1>1 DEF Receive, rxBuffer, InputPipe
<1>2. CASE ~RxFull /\ received # <<>>
  <2> DEFINE ring == Contents(rx_buf, rx_in, rx_out)
             s == <<Head(received)>>
  <2>1. /\ rx_buf \in [Slots -> Byte] /\ rx_in \in Slots /\ rx_out \in Slots
        /\ received \in Seq(Byte) /\ ring \in Seq(Byte)
        /\ Used(rx_in, rx_out) \in 0 .. BufLen - 1
    BY PipesAre DEF PipeInv
  <2>2. /\ received = s \o Tail(received)
        /\ Head(received) \in Byte /\ Tail(received) \in Seq(Byte)
    BY <1>2, <2>1, HeadThenTail
  <2>3. /\ rx_buf' = [rx_buf EXCEPT ![rx_in] = Head(received)]
        /\ rx_in' = Modulo(rx_in + 1) /\ received' = Tail(received)
        /\ rx_out' = rx_out
    BY <1>2 DEF Receive
  <2>4. /\ s \in [1 .. 1 -> Byte] /\ s[1] = Head(received) /\ s \in Seq(Byte)
        /\ 1 \in Nat \ {0}
    BY <2>2
  <2>5. rx_in + 1 <= BufLen /\ Used(rx_in, rx_out) + 1 <= BufLen - 1
    <3>1. Modulo(rx_in + 1) # rx_out
      BY <1>2 DEF RxFull
    <3> QED BY <2>1, <3>1, NextSlot, Constants, SMT DEF Used, Slots
  <2>6. rx_buf' \in [Slots -> Byte]
    BY <2>1, <2>2, <2>3
  <2>7. Written(rx_buf', rx_buf, rx_in, rx_out, 1, s)
    <3>1. ASSUME NEW i \in Slots
          PROVE  rx_buf'[i] = IF i \in rx_in .. rx_in + 1 - 1
                                THEN s[i - rx_in + 1] ELSE rx_buf[i]
      <4>1. CASE i = rx_in
        <5>1. i \in rx_in .. rx_in + 1 - 1 /\ i - rx_in + 1 = 1
          BY <2>1, <4>1, Constants, SMT DEF Slots
        <5> QED BY <2>1, <2>3, <2>4, <4>1, <5>1
      <4>2. CASE i # rx_in
        <5>1. i \notin rx_in .. rx_in + 1 - 1
          BY <2>1, <4>2, Constants, SMT DEF Slots
        <5> QED BY <2>1, <2>3, <4>2, <5>1
      <4> QED BY <4>1, <4>2
    <3> HIDE DEF s
    <3> QED BY <2>1, <2>4, <2>5, <2>6, <3>1 DEF Written
  <2>8. Contents(rx_buf', Modulo(rx_in + 1), rx_out) = ring \o s
    <3> HIDE DEF s
    <3> QED BY ONLY <2>7, PutContents
  <2>9. InputPipe' = (ring \o s) \o Tail(received)
    BY <2>3, <2>8 DEF InputPipe
  <2>10. (ring \o s) \o Tail(received) = ring \o (s \o Tail(received))
    <3> HIDE DEF ring, s
    <3> QED BY <2>1, <2>2, <2>4, ConcatAssociative
  <2> QED BY <2>2, <2>9, <2>10 DEF InputPipe
<1> QED BY <1>1, <1>2

\* A host that polls may put a byte behind the others, if the FIFO has room.
LEMMA PollPuts == PipeInv /\ HostPolls => Input!Next \/ UNCHANGED InputPipe
<1> SUFFICES ASSUME PipeInv, HostPolls
             PROVE  Input!Next \/ UNCHANGED InputPipe
  OBVIOUS
<1>1. UNCHANGED <<rx_in, rx_out, rx_buf>>
  BY DEF HostPolls, rxBuffer
<1>2. CASE UNCHANGED received
  BY <1>1, <1>2 DEF InputPipe
<1>3. ASSUME Len(received) < Depth, NEW b \in Byte, received' = Append(received, b)
      PROVE  Input!Next
  <2> DEFINE ring == Contents(rx_buf, rx_in, rx_out)
             s == <<b>>
  <2>1. /\ received \in Seq(Byte) /\ ring \in Seq(Byte)
        /\ Len(received) \in 0 .. Depth /\ Len(ring) \in 0 .. BufLen - 1
    BY PipesAre DEF PipeInv
  <2>2. s \in [1 .. 1 -> Byte] /\ s \in Seq(Byte) /\ Len(s) = 1
    OBVIOUS
  <2>3. received' = received \o s
    BY <1>3, <2>1, AppendIsConcat
  <2>4. (ring \o received) \o s = ring \o (received \o s)
    <3> HIDE DEF ring, s
    <3> QED BY ONLY <2>1, <2>2, ConcatAssociative
  <2>5. InputPipe' = InputPipe \o s
    BY <1>1, <2>3, <2>4 DEF InputPipe
  <2>6. Len(InputPipe) + Len(s) <= Depth + BufLen - 1 /\ 1 \in 1 .. Depth + BufLen - 1
    <3>1. Len(InputPipe) = Len(ring) + Len(received)
      BY <2>1, ConcatProperties DEF InputPipe
    <3> HIDE DEF ring, s
    <3> QED BY <1>3, <2>1, <2>2, <3>1, Constants, SMT
  <2>7. Input!Put(s)
    BY <2>5, <2>6 DEF InputPipe, Input!Put
  <2> HIDE DEF s
  <2> QED BY <2>2, <2>6, <2>7 DEF Input!Next
<1> QED BY <1>2, <1>3 DEF HostPolls

\* Every step puts bytes into the input, takes some or leaves it alone.
LEMMA InputStep == PipeInv /\ [Next]_vars => [Input!Next]_InputPipe
<1> SUFFICES ASSUME PipeInv, [Next]_vars PROVE Input!Next \/ UNCHANGED InputPipe
  OBVIOUS
<1>1. CASE ReadTake \/ Receive \/ HostPolls
  BY <1>1, ReadTakes, ReceiveKeeps, PollPuts
<1>2. CASE \/ Begin \/ SetTimeout \/ WriteLook \/ WritePut \/ ReadLook
           \/ SpinEnds("wspin", tx_out, "wcheck") \/ SpinEnds("rspin", rx_in, "rcheck")
           \/ Recheck("wcheck", tx_out, "wlook") \/ Recheck("rcheck", rx_in, "rlook")
           \/ CloseEnds \/ Lock \/ Load \/ Store \/ Tell \/ Unlock
  BY <1>2 DEF Begin, SetTimeout, WriteLook, WritePut, ReadLook, SpinEnds,
              Recheck, CloseEnds, Lock, Load, Store, Tell, Unlock, rxBuffer, device,
              InputPipe
<1>3. CASE Enter \/ ReadControl \/ Send \/ Received \/ HostTimeout
  BY <1>3 DEF Enter, ReadControl, Send, SendWhile, Received, HostTimeout, rxBuffer,
              device, InputPipe
<1>4. CASE UNCHANGED vars
  BY <1>4 DEF vars, rxBuffer, device, InputPipe
<1> QED BY <1>1, <1>2, <1>3, <1>4 DEF Next, Thread, Interrupt

\* At first both are empty.
LEMMA InitPipes == Init => OutputPipe = <<>> /\ InputPipe = <<>>
<1> SUFFICES ASSUME Init PROVE OutputPipe = <<>> /\ InputPipe = <<>>
  OBVIOUS
<1>1. Inv
  BY InitInv
<1>2. Used(tx_in, tx_out) = 0 /\ Used(rx_in, rx_out) = 0
  BY DEF Init, Used
<1>3. /\ Contents(tx_buf, tx_in, tx_out) \in Seq(Byte)
      /\ Len(Contents(tx_buf, tx_in, tx_out)) = 0
      /\ Contents(rx_buf, rx_in, rx_out) \in Seq(Byte)
      /\ Len(Contents(rx_buf, rx_in, rx_out)) = 0
  BY <1>1, <1>2, PipesAre
<1>4. Contents(tx_buf, tx_in, tx_out) = <<>> /\ Contents(rx_buf, rx_in, rx_out) = <<>>
  BY <1>3, EmptySeq
<1>5. <<>> \o <<>> = <<>>
  BY EmptySeq, ConcatEmptySeq
<1> QED BY <1>4, <1>5 DEF Init, OutputPipe, InputPipe

LEMMA PipeInvariance == Spec => []PipeInv
BY InitPipeInv, NextPipeInv, PTL DEF Spec

-----------------------------------------------------------------------------
(***************************************************************************)
(* The theorems.                                                           *)
(***************************************************************************)

\* The driver's state, the device's and the locals keep their ranges.
THEOREM JtagTypes == Spec => []TypeOK
<1>1. Inv => TypeOK
  BY DEF Inv
<1> QED BY InitInv, NextInv, <1>1, PTL DEF Spec

\* Output in the buffer never waits for an interrupt that nobody enables
\* (write() against the write half of altera_avalon_jtag_uart_irq()).
THEOREM OutputNeverStalls == Spec => []NoStalledOutput
<1>1. Inv => NoStalledOutput
  BY DEF Inv
<1> QED BY InitInv, NextInv, <1>1, PTL DEF Spec

\* Input never waits in the device for an interrupt that nobody enables
\* (read() against the read half of altera_avalon_jtag_uart_irq()).
THEOREM InputNeverStalls == Spec => []NoStalledInput
<1>1. Inv => NoStalledInput
  BY DEF Inv
<1> QED BY InitInv, NextInv, <1>1, PTL DEF Spec

\* A call that waits has a full buffer or an empty one before it: the index
\* it looks at does not come back round (the loops of read() and write()).
THEOREM WaitsAreGenuine == Spec => []GenuineWait
<1>1. Inv => GenuineWait
  <2> SUFFICES ASSUME Inv PROVE GenuineWait
    OBVIOUS
  <2>1. ASSUME pc \in {"wspin", "wcheck"}, seen = tx_out
        PROVE  Used(tx_in, tx_out) = BufLen - 1
    BY <2>1, Ranges, FullIsFull DEF Inv, Remembers
  <2>2. ASSUME pc \in {"rspin", "rcheck"}, seen = rx_in
        PROVE  rx_in = rx_out
    BY <2>2 DEF Inv, Remembers
  <2> QED BY <2>1, <2>2 DEF GenuineWait
<1> QED BY InitInv, NextInv, <1>1, PTL DEF Spec

\* Neither direction comes to a stand that nothing will end: what the runs
\* check of the driver at every state.
THEOREM DriverNeverStalls == Spec => []NeverStalls
<1>1. TypeOK /\ NoStalledOutput /\ NoStalledInput /\ GenuineWait => NeverStalls
  BY DEF NeverStalls
<1> QED BY <1>1, JtagTypes, OutputNeverStalls, InputNeverStalls, WaitsAreGenuine, PTL

(***************************************************************************)
(* From write() to the host no byte is lost, repeated or overtaken, for    *)
(* every length of ring and FIFO and wherever the indices wrap: thread,    *)
(* interrupt routine and host together are a pipe                          *)
(* (altera_avalon_jtag_uart_write(), the write half of the routine).       *)
(***************************************************************************)
THEOREM OutputIsAPipe == Spec => OutputIsPipe
<1>1. Init => Output!Init
  BY InitPipes DEF OutputPipe, Output!Init
<1>2. PipeInv /\ [Next]_vars
        => [Output!Next]_(toSend \o Contents(tx_buf, tx_in, tx_out))
  BY OutputStep DEF OutputPipe
<1> QED BY <1>1, <1>2, PipeInvariance, PTL DEF Spec, OutputIsPipe, Output!Spec

(***************************************************************************)
(* The same from the host to read(): what does not fit into the ring stays *)
(* in the FIFO, behind it and in order (altera_avalon_jtag_uart_read(),    *)
(* the read half of the routine).                                          *)
(***************************************************************************)
THEOREM InputIsAPipe == Spec => InputIsPipe
<1>1. Init => Input!Init
  BY InitPipes DEF InputPipe, Input!Init
<1>2. PipeInv /\ [Next]_vars
        => [Input!Next]_(Contents(rx_buf, rx_in, rx_out) \o received)
  BY InputStep DEF InputPipe
<1> QED BY <1>1, <1>2, PipeInvariance, PTL DEF Spec, InputIsPipe, Input!Spec
=============================================================================
