------------------------------ MODULE JtagUart ------------------------------
(***************************************************************************)
(* The fast driver of the JTAG UART (altera_avalon_jtag_uart_*.c): two     *)
(* circular buffers between the C library calls of one thread and the      *)
(* interrupt routine, with a timeout that decides whether a host is there. *)
(*                                                                         *)
(* The thread takes a step only while no interrupt routine runs; a routine *)
(* is entered only with interrupts enabled and is not interrupted.  The    *)
(* device and the host move at any time.  The build is unoptimised (see    *)
(* the .objdump beside the program), so every access to the state          *)
(* structure is made where the source makes it.                            *)
(***************************************************************************)
EXTENDS Integers, Sequences, FiniteSets

CONSTANTS BufLen,     \* ALTERA_AVALON_JTAG_UART_BUF_LEN
          Depth,      \* entries of each hardware FIFO
          Threshold,  \* the device asks for output at this many or fewer
          IntMax,     \* INT_MAX
          DefaultTimeout,
          Timeouts,   \* arguments of TIOCSTIMEOUT
          Byte,
          Calls,      \* which of "read", "write", "close" the program makes
          MaxCount    \* bound: the longest read or write

ASSUME BufferAssumption == BufLen \in Nat /\ BufLen >= 2
ASSUME DeviceAssumption ==
  Depth \in Nat \ {0} /\ Threshold \in Nat /\ Threshold < Depth
ASSUME TimeoutAssumption ==
  /\ IntMax \in Nat /\ IntMax >= 3 /\ DefaultTimeout \in 1 .. IntMax - 1
  /\ Timeouts \subseteq Int
ASSUME CountAssumption == MaxCount \in Nat
ASSUME CallAssumption == Calls \subseteq {"read", "write", "close"}

VARIABLES
  \* altera_avalon_jtag_uart_state
  rx_in, rx_out, rx_buf, tx_in, tx_out, tx_buf,
  irq_enable, host_inactive, timeout,
  \* the device: enabled interrupts, its two FIFOs, host activity seen
  control, received, toSend, ac,
  pie,                            \* the processor accepts interrupts
  \* the thread: where it is and the locals of read() and write()
  pc, count, moved, nonblock, seen, n, bit, ie,
  \* the interrupt routine: where it is and its locals
  isr, wi, space, avail

rxBuffer == <<rx_in, rx_out, rx_buf>>
txBuffer == <<tx_in, tx_out, tx_buf>>
host     == <<host_inactive, timeout>>
device   == <<control, received, toSend, ac>>
locals   == <<count, moved, nonblock, seen, n, bit, ie>>
routine  == <<isr, wi, space, avail>>
vars == <<rxBuffer, txBuffer, irq_enable, host, device, pie, pc, locals,
          routine>>

Slots == 0 .. BufLen - 1

\* i % ALTERA_AVALON_JTAG_UART_BUF_LEN
Modulo(i) == i % BufLen

Least(a, b) == IF a < b THEN a ELSE b

(***************************************************************************)
(* read() and write().  A call looks at the index the interrupt routine    *)
(* moves, copies what that allows, and publishes its own index.            *)
(***************************************************************************)
Running(p) == pc = p /\ isr = "off"

Goto(p) == pc' = p /\ UNCHANGED locals

\* The locals end with the call.
Return ==
  /\ pc' = "idle" /\ count' = 0 /\ moved' = FALSE /\ nonblock' = FALSE
  /\ seen' = 0 /\ n' = 0 /\ bit' = "RE" /\ ie' = {}

Begin ==
  /\ Running("idle")
  /\ \E call \in Calls :
       pc' = CASE call = "write" -> "wlook"
               [] call = "read"  -> "rlook"
               [] call = "close" -> "close"
  /\ count' \in 0 .. MaxCount /\ (pc' = "rlook" => count' > 0)
  /\ nonblock' \in BOOLEAN
  /\ UNCHANGED <<rxBuffer, txBuffer, irq_enable, host, device, pie, routine,
                 moved, seen, n, bit, ie>>

\* (Mutant: the slot that tells full from empty is given away.)
RoomToTheBrim(in, out) ==
  IF in < out THEN out - in ELSE BufLen - in

\* Consecutive free slots at the transmit buffer's in; one stays free.
Room(in, out) ==
  IF in < out THEN out - 1 - in
  ELSE IF out > 0 THEN BufLen - in ELSE BufLen - 1 - in

WriteLook ==
  /\ Running("wlook")
  /\ seen' = IF count = 0 THEN seen ELSE tx_out
  /\ n' = IF count = 0 THEN 0 ELSE Least(Room(tx_in, tx_out), count)
  /\ IF n' = 0 THEN pc' = "lock" /\ bit' = "WE"
               ELSE pc' = "wput" /\ UNCHANGED bit
  /\ UNCHANGED <<rxBuffer, txBuffer, irq_enable, host, device, pie, routine,
                 count, moved, nonblock, ie>>

WritePut ==
  /\ Running("wput")
  /\ \E s \in [1 .. n -> Byte] :
       tx_buf' = [i \in Slots |-> IF i \in tx_in .. tx_in + n - 1
                                    THEN s[i - tx_in + 1] ELSE tx_buf[i]]
  /\ tx_in' = Modulo(tx_in + n)
  /\ count' = count - n /\ moved' = TRUE /\ n' = 0
  /\ pc' = "wlook"
  /\ UNCHANGED <<rxBuffer, tx_out, irq_enable, host, device, pie, routine,
                 nonblock, seen, bit, ie>>

\* Consecutive filled slots at the receive buffer's out.
Filled(in, out) == IF in >= out THEN in - out ELSE BufLen - out

ReadLook ==
  /\ Running("rlook")
  /\ LET some == Least(Filled(rx_in, rx_out), count)
     IN  \/ /\ some > 0
            /\ seen' = rx_in /\ n' = some /\ pc' = "rtake"
            /\ UNCHANGED <<count, moved, nonblock, bit, ie>>
         \/ /\ some = 0 /\ moved
            /\ seen' = rx_in /\ bit' = "RE" /\ pc' = "lock"
            /\ UNCHANGED <<count, moved, nonblock, n, ie>>
         \/ some = 0 /\ ~moved /\ nonblock /\ Return
         \/ /\ some = 0 /\ ~moved /\ ~nonblock
            /\ seen' = rx_in /\ pc' = "rspin"
            /\ UNCHANGED <<count, moved, nonblock, n, bit, ie>>
  /\ UNCHANGED <<rxBuffer, txBuffer, irq_enable, host, device, pie, routine>>

Take(last) ==
  /\ Running("rtake")
  /\ rx_out' = Modulo(rx_out + n)
  /\ count' = count - n /\ moved' = TRUE /\ n' = 0
  /\ pc' = IF count' > 0 THEN "rlook" ELSE last
  /\ bit' = "RE"
  /\ UNCHANGED <<rx_in, rx_buf, txBuffer, irq_enable, host, device, pie,
                 routine, nonblock, seen, ie>>

\* (Mutant: a read that got all it wanted enables nothing.)
ReadTakeQuiet == Take("idle")

ReadTake == Take("lock")

(***************************************************************************)
(* Waiting for the other side: the loop ends when the remembered index is  *)
(* no longer the current one or the host has been away too long; the index *)
(* is then compared once more.                                             *)
(***************************************************************************)
Gone == host_inactive >= timeout

\* (Mutant: a call waits without limit.)
SpinOn(p, index, next) ==
  /\ Running(p)
  /\ seen # index
  /\ Goto(next)
  /\ UNCHANGED <<rxBuffer, txBuffer, irq_enable, host, device, pie, routine>>

SpinEnds(p, index, next) ==
  /\ Running(p)
  /\ seen # index \/ Gone
  /\ Goto(next)
  /\ UNCHANGED <<rxBuffer, txBuffer, irq_enable, host, device, pie, routine>>

Recheck(p, index, next) ==
  /\ Running(p)
  /\ IF seen = index THEN Return ELSE Goto(next)
  /\ UNCHANGED <<rxBuffer, txBuffer, irq_enable, host, device, pie, routine>>

CloseEnds ==
  /\ Running("close")
  /\ tx_out = tx_in \/ Gone \/ nonblock
  /\ Return
  /\ UNCHANGED <<rxBuffer, txBuffer, irq_enable, host, device, pie, routine>>

(***************************************************************************)
(* Enabling an interrupt: irq_enable |= bit between alt_irq_disable_all()  *)
(* and alt_irq_enable_all().                                               *)
(***************************************************************************)
Lock ==
  /\ Running("lock")
  /\ pie' = FALSE /\ Goto("load")
  /\ UNCHANGED <<rxBuffer, txBuffer, irq_enable, host, device, routine>>

Load ==
  /\ Running("load")
  /\ ie' = irq_enable \cup {bit} /\ pc' = "store"
  /\ UNCHANGED <<rxBuffer, txBuffer, irq_enable, host, device, pie, routine,
                 count, moved, nonblock, seen, n, bit>>

Store ==
  /\ Running("store")
  /\ irq_enable' = ie /\ Goto("tell")
  /\ UNCHANGED <<rxBuffer, txBuffer, host, device, pie, routine>>

Tell ==
  /\ Running("tell")
  /\ control' = irq_enable /\ Goto("unlock")
  /\ UNCHANGED <<rxBuffer, txBuffer, irq_enable, host, received, toSend, ac,
                 pie, routine>>

\* A write that is not finished waits; every other call is over.
Unlock ==
  /\ Running("unlock")
  /\ pie' = TRUE
  /\ IF bit = "WE" /\ count > 0 /\ ~nonblock THEN Goto("wspin") ELSE Return
  /\ UNCHANGED <<rxBuffer, txBuffer, irq_enable, host, device, routine>>

\* ioctl(TIOCSTIMEOUT)
SetTimeout ==
  /\ Running("idle")
  /\ \E t \in Timeouts :
       timeout' = IF 2 <= t /\ t < IntMax THEN t ELSE IntMax - 1
  /\ UNCHANGED <<rxBuffer, txBuffer, irq_enable, host_inactive, device, pie,
                 pc, routine, locals>>

\* What a call does once it is made.
Thread ==
  \/ WriteLook
  \/ WritePut
  \/ ReadLook
  \/ ReadTake
  \/ SpinEnds("wspin", tx_out, "wcheck")
  \/ SpinEnds("rspin", rx_in, "rcheck")
  \/ Recheck("wcheck", tx_out, "wlook")
  \/ Recheck("rcheck", rx_in, "rlook")
  \/ CloseEnds
  \/ Lock
  \/ Load
  \/ Store
  \/ Tell
  \/ Unlock

(***************************************************************************)
(* The interrupt routine.  It reads control, empties the receive FIFO into *)
(* the buffer, fills the transmit FIFO from the other, and starts again    *)
(* until control shows no reason.                                          *)
(***************************************************************************)
ReadPending  == "RE" \in control /\ received # <<>>
WritePending == "WE" \in control /\ Len(toSend) <= Threshold

Enter ==
  /\ isr = "off" /\ pie /\ (ReadPending \/ WritePending)
  /\ isr' = "control"
  /\ UNCHANGED <<rxBuffer, txBuffer, irq_enable, host, device, pie, pc,
                 locals, wi, space, avail>>

ReadControl ==
  /\ isr = "control"
  /\ wi' = (WritePending /\ ReadPending)
  /\ space' = IF WritePending THEN Depth - Len(toSend) ELSE 0
  /\ avail' = ReadPending
  /\ isr' = IF ReadPending THEN "receive"
            ELSE IF WritePending THEN "send" ELSE "off"
  /\ UNCHANGED <<rxBuffer, txBuffer, irq_enable, host, device, pie, pc,
                 locals>>

\* (Mutant: the buffer is never full.)
RxNeverFull == FALSE

RxFull == Modulo(rx_in + 1) = rx_out

\* One round of the inner loop: stop if the buffer is full or nothing comes.
Receive ==
  /\ isr = "receive"
  /\ IF RxFull
       THEN isr' = "received" /\ UNCHANGED <<rxBuffer, received, avail>>
     ELSE IF received = <<>>
       THEN /\ isr' = "received" /\ avail' = FALSE
            /\ UNCHANGED <<rxBuffer, received>>
       ELSE /\ rx_buf' = [rx_buf EXCEPT ![rx_in] = Head(received)]
            /\ rx_in' = Modulo(rx_in + 1)
            /\ received' = Tail(received)
            /\ avail' = (Len(received) > 1)
            /\ UNCHANGED <<rx_out, isr>>
  /\ UNCHANGED <<txBuffer, irq_enable, host, control, toSend, ac, pie, pc,
                 locals, wi, space>>

\* Data is left, so the buffer is full: no more receive interrupts.
Received ==
  /\ isr = "received"
  /\ IF avail THEN irq_enable' = irq_enable \ {"RE"} /\ control' = irq_enable'
              ELSE UNCHANGED <<irq_enable, control>>
  /\ isr' = IF wi THEN "send" ELSE "control"
  /\ wi' = FALSE /\ avail' = FALSE
  /\ UNCHANGED <<rxBuffer, txBuffer, host, received, toSend, ac, pie, pc,
                 locals, space>>

\* A character written to a full FIFO is lost; space is what keeps it safe.
Push(b) == toSend' = IF Len(toSend) < Depth THEN Append(toSend, b) ELSE toSend

SendWhile(more, off) ==
  /\ isr = "send"
  /\ IF more
       THEN /\ Push(tx_buf[tx_out]) /\ tx_out' = Modulo(tx_out + 1)
            /\ space' = space - 1 /\ UNCHANGED <<irq_enable, control, isr>>
       ELSE /\ IF off
                 THEN irq_enable' = irq_enable \ {"WE"} /\ control' = irq_enable'
                 ELSE UNCHANGED <<irq_enable, control>>
            /\ isr' = "control" /\ space' = 0 /\ UNCHANGED <<toSend, tx_out>>
  /\ UNCHANGED <<rxBuffer, tx_in, tx_buf, host, received, ac, pie, pc,
                 locals, wi, avail>>

\* (Mutant: interrupts are turned off whenever the loop ends.)
SendAndOff == SendWhile(space > 0 /\ tx_out # tx_in, TRUE)

\* With room left and nothing more to send, no more transmit interrupts.
Send == SendWhile(space > 0 /\ tx_out # tx_in, space > 0)

Interrupt == Enter \/ ReadControl \/ Receive \/ Received \/ Send

\* altera_avalon_jtag_uart_timeout(), once a second from the timer interrupt.
HostTimeout ==
  /\ isr = "off" /\ pie
  /\ IF ac
       THEN control' = irq_enable /\ ac' = FALSE /\ host_inactive' = 0
       ELSE /\ host_inactive' = IF host_inactive < IntMax - 2
                                  THEN host_inactive + 1 ELSE host_inactive
            /\ UNCHANGED <<control, ac>>
  /\ UNCHANGED <<rxBuffer, txBuffer, irq_enable, timeout, received, toSend,
                 pie, pc, locals, routine>>

\* The host, when it is there: it takes a character, and may send one.
HostPolls ==
  /\ ac' = TRUE
  /\ toSend' = IF toSend = <<>> THEN <<>> ELSE Tail(toSend)
  /\ \/ UNCHANGED received
     \/ /\ "read" \in Calls /\ Len(received) < Depth
        /\ \E b \in Byte : received' = Append(received, b)
  /\ UNCHANGED <<rxBuffer, txBuffer, irq_enable, host, control, pie, pc,
                 locals, routine>>

Next == Begin \/ SetTimeout \/ Thread \/ Interrupt \/ HostTimeout \/ HostPolls

\* altera_avalon_jtag_uart_init(), and the device after reset.
Init ==
  /\ rx_in = 0 /\ rx_out = 0 /\ tx_in = 0 /\ tx_out = 0
  /\ \E b \in Byte : rx_buf = [i \in Slots |-> b] /\ tx_buf = [i \in Slots |-> b]
  /\ irq_enable = {"RE"} /\ control = {"RE"}
  /\ host_inactive = 0 /\ timeout = DefaultTimeout
  /\ received = <<>> /\ toSend = <<>> /\ ac = FALSE /\ pie = TRUE
  /\ pc = "idle" /\ count = 0 /\ moved = FALSE /\ nonblock = FALSE
  /\ seen = 0 /\ n = 0 /\ bit = "RE" /\ ie = {}
  /\ isr = "off" /\ wi = FALSE /\ space = 0 /\ avail = FALSE

Spec == Init /\ [][Next]_vars

\* A call that is made goes on, interrupts are taken, and the timer, whose
\* interrupt has the highest priority, is served; the host may do nothing.
Fairness == WF_vars(Thread) /\ WF_vars(Interrupt) /\ SF_vars(HostTimeout)

(***************************************************************************)
(* Properties.                                                             *)
(***************************************************************************)

Used(in, out) == IF in >= out THEN in - out ELSE BufLen - out + in

\* The driver's state, the device's and the locals keep their ranges.
TypeOK ==
  /\ {rx_in, rx_out, tx_in, tx_out, seen} \subseteq Slots
  /\ rx_buf \in [Slots -> Byte] /\ tx_buf \in [Slots -> Byte]
  /\ {irq_enable, control, ie} \subseteq SUBSET {"RE", "WE"}
  /\ host_inactive \in 0 .. IntMax /\ timeout \in 0 .. IntMax
  /\ received \in Seq(Byte) /\ Len(received) <= Depth
  /\ toSend \in Seq(Byte) /\ Len(toSend) <= Depth
  /\ {ac, pie, moved, nonblock, wi, avail} \subseteq BOOLEAN
  /\ pc \in {"idle", "wlook", "wput", "wspin", "wcheck", "rlook", "rtake",
             "rspin", "rcheck", "lock", "load", "store", "tell", "unlock",
             "close"}
  /\ isr \in {"off", "control", "receive", "received", "send"}
  /\ count \in 0 .. MaxCount
  /\ n \in 0 .. MaxCount /\ bit \in {"RE", "WE"}
  /\ space \in 0 .. Depth

\* The thread is between changing an index and enabling interrupt b.
WillEnable(b) ==
  \/ pc \in {"lock", "load", "store", "tell"} /\ bit = b
  \/ b = "WE" /\ pc \in {"wlook", "wput"}
  \/ b = "RE" /\ pc \in {"rlook", "rtake"} /\ moved

\* Output in the buffer never waits for an interrupt that nobody has enabled
\* or is about to enable, wherever the routine turns it off
\* (altera_avalon_jtag_uart_irq, the end of its write half).
NoStalledOutput == tx_in # tx_out => "WE" \in control \/ WillEnable("WE")

\* Receive interrupts are off only while the buffer holds something for the
\* next read() to take, which then enables them (the end of read()).
NoStalledInput == "RE" \notin control => rx_in # rx_out \/ WillEnable("RE")

\* A call waits for a reason: while the index it remembers is the current
\* one, nothing can be read or written.  The index may move meanwhile, and it
\* must not come back round to the remembered value.
GenuineWait ==
  /\ pc \in {"wspin", "wcheck"} /\ seen = tx_out => Used(tx_in, tx_out) = BufLen - 1
  /\ pc \in {"rspin", "rcheck"} /\ seen = rx_in => rx_in = rx_out

\* Neither direction comes to a stand that nothing will end: not for want of
\* an interrupt, and not in a call that could go on.
NeverStalls == TypeOK /\ NoStalledOutput /\ NoStalledInput /\ GenuineWait

Contents(buf, in, out) ==
  [i \in 1 .. Used(in, out) |-> buf[Modulo(out + i - 1)]]

Output == INSTANCE BytePipe WITH
  pipe <- toSend \o Contents(tx_buf, tx_in, tx_out),
  Capacity <- Depth + BufLen - 1

Input == INSTANCE BytePipe WITH
  pipe <- Contents(rx_buf, rx_in, rx_out) \o received,
  Capacity <- Depth + BufLen - 1

\* From write() to the host no byte is lost, repeated or overtaken, through
\* the buffer and the device's FIFO, at every wrap of the indices.
OutputIsPipe == Output!Spec

\* The same from the host to read().
InputIsPipe == Input!Spec

\* A write() or close() returns, whatever the host does: it takes characters
\* or, if it stays away, the timeout ends the wait.
WritesEnd ==
  pc \in {"wlook", "wput", "wspin", "wcheck", "close"} ~> pc = "idle"

\* A read() that waits is woken by a character that has reached the device.
ReaderWakes == pc = "rspin" /\ received # <<>> ~> pc # "rspin"
=============================================================================
