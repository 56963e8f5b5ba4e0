------------------------------ MODULE LineFifo ------------------------------
(***************************************************************************)
(* EDC/fifo.v over EDC/dp_ram.v, the queue in front of the line drawer.    *)
(* draw_lines.v has four of them, one for each coordinate, with the same   *)
(* i_read, i_write and i_reset; one queue of whole lines stands for them.  *)
(*                                                                         *)
(* Nothing in fifo.v stops a write when o_full or a read when o_empty, and *)
(* o_data is registered: it follows the head one clock late.  FifoClock is *)
(* the code, whatever its inputs; FifoNext drives it the way it has to be  *)
(* driven.                                                                 *)
(***************************************************************************)
EXTENDS Integers, Sequences

CONSTANTS Depth,   \* P_DEPTH, 1 << P_ADDR_W
          Data,    \* what can be queued
          Junk     \* what the RAM holds before it is written

ASSUME DepthAssumption == Depth \in Nat /\ Depth >= 2

VARIABLES wr_addr, rd_addr, counter, ram, ram_data,
          settled,  \* history: o_data has caught up with the head
          taken     \* history: what the reader took last

fifoRegs == <<wr_addr, rd_addr, counter, ram, ram_data>>
fifoVars == <<fifoRegs, settled, taken>>

Addresses == 0 .. Depth - 1

\* a + 1 and a - 1 in P_ADDR_W bits.
Up(a)   == IF a = Depth - 1 THEN 0 ELSE a + 1
Down(a) == IF a = 0 THEN Depth - 1 ELSE a - 1

o_full  == counter = Depth - 1
o_empty == counter = 0

\* (Mutant: the counter moves on every write.)

CountOnWrite(i_write, i_read) ==
  IF i_write THEN Up(counter) ELSE IF i_read THEN Down(counter) ELSE counter

Count(i_write, i_read) ==
  CASE i_read /\ ~i_write -> Down(counter)
    [] i_write /\ ~i_read -> Up(counter)
    [] OTHER -> counter

\* (Mutant: o_data is taken from the write side.)
OutputOfWriter == ram[wr_addr]
Output         == ram[rd_addr]

FifoClock(i_reset, i_write, i_read, i_data) ==
  /\ wr_addr' = IF i_reset THEN 0 ELSE IF i_write THEN Up(wr_addr) ELSE wr_addr
  /\ rd_addr' = IF i_reset THEN 0 ELSE IF i_read THEN Up(rd_addr) ELSE rd_addr
  /\ counter' = IF i_reset THEN 0 ELSE Count(i_write, i_read)
  /\ ram' = IF i_write THEN [ram EXCEPT ![wr_addr] = i_data] ELSE ram
  /\ ram_data' = Output

FifoInit ==
  /\ wr_addr = 0 /\ rd_addr = 0 /\ counter = 0
  /\ ram = [a \in Addresses |-> Junk]
  /\ ram_data = Junk

(***************************************************************************)
(* The discipline: write only when there is room or a read makes some,     *)
(* read only an entry that is there and has reached o_data, which takes a  *)
(* clock in which it was the head already and nothing was read.            *)
(***************************************************************************)
FifoNext ==
  \E i_reset, i_write, i_read \in BOOLEAN, i_data \in Data :
    /\ i_read => settled
    /\ i_write => ~o_full \/ i_read
    /\ FifoClock(i_reset, i_write, i_read, i_data)
    /\ settled' = (~i_reset /\ ~i_read /\ ~o_empty)
    /\ taken' = IF i_read /\ ~i_reset THEN ram_data ELSE taken

DrivenInit == FifoInit /\ settled = FALSE /\ taken = Junk

DrivenSpec == DrivenInit /\ [][FifoNext]_fifoVars

(***************************************************************************)
(* Properties.                                                             *)
(***************************************************************************)

\* The registers of the queue have their widths.
FifoTypeOK ==
  /\ wr_addr \in Addresses /\ rd_addr \in Addresses /\ counter \in Addresses
  /\ ram \in [Addresses -> Data \cup {Junk}]
  /\ ram_data \in Data \cup {Junk} /\ taken \in Data \cup {Junk}
  /\ settled \in BOOLEAN

\* The address i places after a.
Place(a, i) == IF a + i < Depth THEN a + i ELSE a + i - Depth

(***************************************************************************)
(* The three registers that fifo.v keeps apart agree: the write address is *)
(* counter places after the read address; and a settled output is the     *)
(* oldest entry.                                                           *)
(***************************************************************************)
PointersAgree ==
  /\ wr_addr = Place(rd_addr, counter)
  /\ settled => ~o_empty /\ ram_data = ram[rd_addr]

\* The registers keep their widths and agree: the invariant of the queue.
QueueAgrees == FifoTypeOK /\ PointersAgree

\* The entries in the queue, oldest first.
Contents == [i \in 1 .. counter |-> ram[Place(rd_addr, i - 1)]]

(***************************************************************************)
(* Driven with discipline the FIFO is a queue of Depth - 1 places: nothing *)
(* is lost, repeated or overtaken, whatever the interleaving of the two    *)
(* sides and wherever the addresses wrap.                                  *)
(***************************************************************************)
Queue == INSTANCE BoundedQueue
           WITH queue <- Contents, Capacity <- Depth - 1

ImplementsQueue == Queue!Spec
=============================================================================
