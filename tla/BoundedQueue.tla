---------------------------- MODULE BoundedQueue ----------------------------
(***************************************************************************)
(* What a FIFO promises: values come out once each, in the order they went *)
(* in, and it never holds more than its capacity.  A reset empties it.     *)
(***************************************************************************)
EXTENDS Naturals, Sequences

CONSTANTS Data, Capacity

VARIABLES queue,   \* what is in it, oldest first
          taken    \* the value the reader took last

Init == queue = << >>

Put(d) == Len(queue) < Capacity /\ queue' = Append(queue, d) /\ UNCHANGED taken

Take == queue # << >> /\ taken' = Head(queue) /\ queue' = Tail(queue)

\* In one clock cycle: the oldest goes out and d comes in.
Exchange(d) ==
  /\ queue # << >>
  /\ taken' = Head(queue)
  /\ queue' = Append(Tail(queue), d)

Empty == queue' = << >> /\ UNCHANGED taken

Next == (\E d \in Data : Put(d) \/ Exchange(d)) \/ Take \/ Empty

Spec == Init /\ [][Next]_<<queue, taken>>
=============================================================================
