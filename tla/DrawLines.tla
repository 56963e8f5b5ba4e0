----------------------------- MODULE DrawLines -----------------------------
(***************************************************************************)
(* EDC/draw_lines.v: lines are queued in front of a Bresenham unit that    *)
(* sets their pixels in the screen buffer.  i_clear_buffer starts a round: *)
(* the buffer is cleared, then queued lines are drawn until the queue is   *)
(* empty.  All parts run on one clock, so one action is one rising edge of *)
(* i_clk and conjoins the FIFO, the Bresenham unit, the state machine and  *)
(* the buffer.  The side of the buffer that the VGA controller reads is    *)
(* left out: it changes nothing.                                           *)
(***************************************************************************)
EXTENDS Bresenham, Sequences

CONSTANTS
  Depth,             \* of module LineFifo
  Lines,             \* the lines that can be asked for
  ScreenW, ScreenH,  \* P_SCREEN_W, P_SCREEN_H
  RamSize,           \* 1 << P_LOG2_RAM_DEPTH
  Asked              \* those that a client asks for which is careful, and
                     \* those that one asks for which is not

ASSUME LinesAssumption == Lines \subseteq Line

ASSUME ScreenAssumption ==
  /\ ScreenW \in Nat \ {0} /\ ScreenH \in Nat \ {0} /\ RamSize \in Nat
  /\ ScreenW * ScreenH < RamSize
  /\ Depth \in Nat /\ Depth >= 2
  /\ Asked \in [BOOLEAN -> SUBSET Lines]

VARIABLES
  draw_state,               \* curr_state
  clear_addr, screen,
  wr_addr, rd_addr, counter, ram, ram_data,  \* the FIFO
  careful,                  \* the kind of client, the same for ever
  round                     \* history: lines taken in this round

fifoRegs == <<wr_addr, rd_addr, counter, ram, ram_data>>
drawVars == <<draw_state, clear_addr, screen, fifoRegs, bresVars,
              careful, round>>

\* The RAM of the FIFOs powers up to zeros: a line from (0, 0) to (0, 0).
ZeroLine == [from |-> [x |-> 0, y |-> 0], to |-> [x |-> 0, y |-> 0]]

Fifo == INSTANCE LineFifo
          WITH Data <- Lines, Junk <- ZeroLine,
               settled <- counter # 0, taken <- ram_data

load_vals == draw_state = "LOAD"

\* (Mutant: the next line is loaded without a look at the queue.)
AfterLineLoad == "LOAD"
AfterLine     == IF Fifo!o_empty THEN "WAITING" ELSE "LOAD"

\* (Mutant: clearing ends at an address never reached.)
ClearedBeyond == clear_addr = RamSize
Cleared      == clear_addr = ScreenW * ScreenH

NextState(i_clear_buffer) ==
  CASE draw_state = "WAITING" /\ i_clear_buffer -> "CLEAR"
    [] draw_state = "CLEAR" /\ Cleared -> "LOAD"
    [] draw_state = "LOAD" -> "DRAW"
    [] draw_state = "DRAW" /\ bres_waiting -> AfterLine
    [] OTHER -> draw_state

\* (Mutant: pixels are accepted only while the unit is drawing.)
WriteWhileDrawing == draw_state = "DRAW" /\ vals_rdy /\ ~bres_waiting
WritePixel        == draw_state = "DRAW" /\ vals_rdy

ScreenBuffer ==
  screen' = CASE draw_state = "CLEAR" -> [screen EXCEPT ![clear_addr] = 0]
              [] WritePixel ->
                   [screen EXCEPT ![(ScreenW * o_y_val + o_x_val) % RamSize] = 1]
              [] OTHER -> screen

ClearCounter(i_reset) ==
  clear_addr' = IF i_reset \/ draw_state # "CLEAR" THEN 0
                ELSE (clear_addr + 1) % RamSize

DrawClock(i_reset, i_load_fifo, i_clear_buffer, l) ==
  /\ draw_state' = IF i_reset THEN "WAITING" ELSE NextState(i_clear_buffer)
  /\ ScreenBuffer
  /\ ClearCounter(i_reset)
  /\ Fifo!FifoClock(i_reset, i_load_fifo, load_vals, l)
  /\ BresClock(i_reset, load_vals, ram_data)

(***************************************************************************)
(* A careful client queues a line only when there is room, starts a round  *)
(* only when the queue holds something, and gives no reset.                *)
(***************************************************************************)
Client(i_reset, i_load_fifo, i_clear_buffer) ==
  /\ careful => /\ i_load_fifo => ~Fifo!o_full
                /\ i_clear_buffer => ~Fifo!o_empty
                /\ ~i_reset

Clock ==
  \E i_reset, i_load_fifo, i_clear_buffer \in BOOLEAN :
  \E l \in IF i_load_fifo THEN Asked[careful] ELSE {ZeroLine} :
    /\ Client(i_reset, i_load_fifo, i_clear_buffer)
    /\ DrawClock(i_reset, i_load_fifo, i_clear_buffer, l)
    /\ UNCHANGED careful
    /\ round' = IF i_reset THEN [known |-> FALSE, lines |-> {}]
                ELSE CASE draw_state = "CLEAR" -> [known |-> TRUE, lines |-> {}]
                       [] load_vals -> [round EXCEPT !.lines = @ \cup {ram_data}]
                       [] OTHER -> round

Init ==
  /\ draw_state = "WAITING" /\ clear_addr = 0 /\ careful \in BOOLEAN
  /\ \E v \in {0, 1} : screen = [a \in 0 .. RamSize - 1 |-> v]
  /\ Fifo!FifoInit
  /\ BresInit
  /\ round = [known |-> FALSE, lines |-> {}]

Spec     == Init /\ [][Clock]_drawVars
FairSpec == Spec /\ WF_drawVars(Clock)

(***************************************************************************)
(* Properties.                                                             *)
(***************************************************************************)

\* The registers of all parts have their ranges.
TypeOK ==
  /\ draw_state \in {"WAITING", "CLEAR", "LOAD", "DRAW"}
  /\ clear_addr \in 0 .. RamSize - 1
  /\ screen \in [0 .. RamSize - 1 -> {0, 1}]
  /\ Fifo!FifoTypeOK
  /\ BresTypeOK

\* k * e / d, rounded; a line without length has one pixel, at 0.
Rounded(d, e, k) ==
  LET n == LargerOf(d, 1) IN (k * e + n - 1 - d \div 2) \div n

(***************************************************************************)
(* The pixels of a line, in closed form: along its longer axis one for     *)
(* each step, across it the ideal value rounded.                           *)
(***************************************************************************)
LinePixels(l) ==
  LET isSteep == Abs(l.to.y - l.from.y) > Abs(l.to.x - l.from.x)
      Along(p) == IF isSteep THEN p.y ELSE p.x
      Across(p) == IF isSteep THEN p.x ELSE p.y
      a == IF Along(l.from) > Along(l.to) THEN l.to ELSE l.from
      b == IF Along(l.from) > Along(l.to) THEN l.from ELSE l.to
      d == Along(b) - Along(a)
      e == Abs(Across(b) - Across(a))
      sign == IF Across(a) < Across(b) THEN 1 ELSE -1
      At(k) == [u |-> Along(a) + k, v |-> Across(a) + sign * Rounded(d, e, k)]
  IN  {IF isSteep THEN [x |-> At(k).v, y |-> At(k).u]
                  ELSE [x |-> At(k).u, y |-> At(k).v] : k \in 0 .. d}

Address(p) == ScreenW * p.y + p.x

(***************************************************************************)
(* When a round is over the screen shows the lines taken in that round,    *)
(* every pixel of them, and nothing else: nothing survives the clearing,   *)
(* no pixel is lost at the hand-over from one line to the next (the last   *)
(* pixel of a line is written while the unit already waits).               *)
(***************************************************************************)
PictureComplete ==
  draw_state = "WAITING" /\ round.known =>
    {a \in 0 .. ScreenW * ScreenH - 1 : screen[a] = 1}
      = {Address(p) : p \in UNION {LinePixels(l) : l \in round.lines}}

(***************************************************************************)
(* What the unit loads is the oldest line of the queue, arrived on o_data: *)
(* never the stale word behind an empty queue, and never a word the RAM    *)
(* has not put out yet.  It needs the careful client: LOAD pops without    *)
(* looking at fifo_empty.                                                  *)
(***************************************************************************)
LoadsOldest ==
  careful /\ load_vals => ~Fifo!o_empty /\ ram_data = Fifo!Contents[1]

\* The queue's pointers agree with its counter, even when it over- or
\* underflows: they lose the same thing.
PointersAgree == wr_addr = Fifo!Place(rd_addr, counter)

\* The drawer takes from the queue what was put there first.
QueueIsDrawn == TypeOK /\ PointersAgree /\ LoadsOldest

\* A line is queued: it moves the address of the next.
LineQueued == ~UNCHANGED wr_addr

(***************************************************************************)
(* Every line is done with, a stale word drawn from an empty queue too.    *)
(* A round may last longer than its lines: the queue is looked at after    *)
(* each, so a client that queues a line for every line that is drawn keeps *)
(* the round going.  Nothing else does: the drawer waits for the next      *)
(* round again and again, unless lines are queued for ever.                *)
(***************************************************************************)
RoundsEnd ==
  /\ []<>(draw_state # "DRAW")
  /\ []<>(draw_state = "WAITING") \/ []<><<LineQueued>>_drawVars
=============================================================================
