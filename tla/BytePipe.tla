------------------------------ MODULE BytePipe ------------------------------
(***************************************************************************)
(* What each direction of a buffered serial port promises: a pipe that     *)
(* takes bytes at one end, several at a time, and hands them out at the    *)
(* other in the same order, and never holds more than Capacity.            *)
(***************************************************************************)
EXTENDS Integers, Sequences

CONSTANTS Byte, Capacity

VARIABLE pipe

Init == pipe = <<>>

Put(s) ==
  /\ Len(pipe) + Len(s) <= Capacity
  /\ pipe' = pipe \o s

Get(n) ==
  /\ n <= Len(pipe)
  /\ pipe' = SubSeq(pipe, n + 1, Len(pipe))

Next ==
  \/ \E n \in 1 .. Capacity : \E s \in [1 .. n -> Byte] : Put(s)
  \/ \E n \in 1 .. Capacity : Get(n)

Spec == Init /\ [][Next]_pipe
=============================================================================
