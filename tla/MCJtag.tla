------------------------------- MODULE MCJtag -------------------------------
(* Buffers of three slots behind short FIFOs: full, empty and the wrap of  *)
(* every index happen.  A program does one of three things in a behaviour: *)
(*   out    it writes and closes, in calls of up to what the buffer holds; *)
(*   times  it also sets timeouts, and makes calls that are longer; what   *)
(*          is written is always the same;                                 *)
(*   in     it reads, and the FIFO holds one byte.                         *)
(* For what must happen in the end, it does all of this in one behaviour.  *)
EXTENDS JtagUart

VARIABLE side
Writing == INSTANCE JtagUart WITH Calls <- {"write", "close"}, Timeouts <- {}, MaxCount <- 2
Timing  == INSTANCE JtagUart WITH Calls <- {"write", "close"}, Byte <- {1}
Reading == INSTANCE JtagUart WITH Calls <- {"read"}, Timeouts <- {}, MaxCount <- 2, Depth <- 1

SideInit == side \in {"out", "times", "in"} /\ Init /\ (side = "times" => Timing!Init)
SideNext ==
  /\ UNCHANGED side
  /\ \/ side = "out" /\ Writing!Next
     \/ side = "times" /\ Timing!Next
     \/ side = "in" /\ Reading!Next
SideSpec == SideInit /\ [][SideNext]_<<side, vars>>

LiveSpec ==
  side = "all" /\ Init /\ [][Next /\ UNCHANGED side]_<<side, vars>> /\ Fairness
=============================================================================
