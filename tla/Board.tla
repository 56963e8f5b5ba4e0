-------------------------------- MODULE Board -------------------------------
(***************************************************************************)
(* The slaves on the bus of the mouse system (system.h) and what main()    *)
(* does to its displays: it switches the screen on, wipes it pixel by      *)
(* pixel and sets its colours, and then, for each place of the cursor,     *)
(* shows the place on the eight digits, the lights and the screen.         *)
(***************************************************************************)
EXTENDS Integers, Sequences

CONSTANT Places \* bound: the places of the cursor that are shown

VgaWidth == 640
VgaHeight == 480
ASSUME PlacesAssumption ==
  Places \subseteq (0 .. VgaWidth - 1) \X (0 .. VgaHeight - 1)

VARIABLES board_pc, x_col, y_col, \* main(), and the loops of Vga_clear_screen()
          place, figure,           \* px and py, and the loop over the registers
          bus,                     \* the last access: the slave meant, the address
          digits                   \* what the digits show

boardVars == <<board_pc, x_col, y_col, place, figure, bus, digits>>

\* Where the slaves begin, and how many bytes they take.
UsbAndLights ==
  [cy7c67200 |-> <<\h9200070, 16>>, jtag_uart |-> <<\h8001070, 8>>,
   key |-> <<\h9200020, 16>>, lcd |-> <<\h9200060, 16>>, ledg |-> <<\h9200040, 16>>]
LightsAndMemory ==
  [ledr |-> <<\h9200050, 16>>, pll |-> <<\h8001060, 16>>, sdram |-> <<0, 134217728>>,
   seg7 |-> <<\h9200000, 32>>, sma_in |-> <<\h8001040, 16>>]
SwitchesAndScreen ==
  [sma_out |-> <<\h8001050, 16>>, sram |-> <<\h8200000, 2097152>>,
   sw |-> <<\h9200030, 16>>, sysid |-> <<\h9200080, 8>>, timer |-> <<\h8001020, 32>>,
   timer_stamp |-> <<\h8001000, 32>>, vpg |-> <<\h9000000, 2097152>>]
Slave(s) ==
  IF s \in DOMAIN UsbAndLights THEN UsbAndLights[s]
  ELSE IF s \in DOMAIN LightsAndMemory THEN LightsAndMemory[s]
  ELSE SwitchesAndScreen[s]

\* The slaves that take an address.
Takes(slave, a) == slave[1] <= a /\ a < slave[1] + slave[2]
Decode(a) ==
  {s \in DOMAIN UsbAndLights : Takes(UsbAndLights[s], a)}
    \cup {s \in DOMAIN LightsAndMemory : Takes(LightsAndMemory[s], a)}
    \cup {s \in DOMAIN SwitchesAndScreen : Takes(SwitchesAndScreen[s], a)}

\* (Mutant: a register takes eight bytes.)
WideBus == 64
\* IOWR(base, offset, data): registers are words of four bytes.
BusWidth == 32
Iowr(slave, offset) ==
  bus' = [slave |-> slave, address |-> Slave(slave)[1] + offset * (BusWidth \div 8)]

OsdMemAddr == VgaWidth * VgaHeight

\* The macros of VGA.h.
VgaRegister(k) == OsdMemAddr + k
VgaPixel(x, y) == y * VgaWidth + x

\* The segments of the sixteen figures.
SzMap == <<63, 6, 91, 79, 102, 109, 125, 7, 127, 111, 119, 124, 57, 94, 121, 113>>
Seg7Num == 8

\* (px << 16) + py, and its i-th figure from the right.
Shown(p) == p[1] * 65536 + p[2]
Figure(n, k) == (n \div (16 ^ k)) % 16
-----------------------------------------------------------------------------
Unchanged(label) == board_pc' = label /\ UNCHANGED <<x_col, y_col, place, figure, digits>>

SwitchOn == board_pc = "on" /\ Iowr("vpg", VgaRegister(0)) /\ Unchanged("clear")

\* Row by row, the columns of each.
Vga_clear_screen ==
  /\ board_pc = "clear" /\ Iowr("vpg", VgaPixel(x_col, y_col))
  /\ x_col' = (x_col + 1) % VgaWidth
  /\ y_col' = IF x_col = VgaWidth - 1 THEN y_col + 1 ELSE y_col
  /\ board_pc' = IF y_col' = VgaHeight THEN "colour" ELSE "clear"
  /\ UNCHANGED <<place, figure, digits>>

\* Nine registers: red, green and blue of pixels on and off and the cursor.
Set_Colours ==
  /\ board_pc = "colour" /\ Iowr("vpg", VgaRegister(3 + figure))
  /\ \/ figure < 8 /\ board_pc' = board_pc /\ figure' = figure + 1
     \/ figure = 8 /\ board_pc' = "place" /\ figure' = 0
  /\ UNCHANGED <<x_col, y_col, place, digits>>

MoveTo(p) ==
  /\ board_pc = "place" /\ place' = p /\ board_pc' = "digits" /\ figure' = 0
  /\ UNCHANGED <<x_col, y_col, bus, digits>>

SEG7_Hex ==
  /\ board_pc = "digits" /\ Iowr("seg7", figure)
  /\ digits' = [digits EXCEPT ![figure + 1] = SzMap[Figure(Shown(place), figure) + 1]]
  /\ \/ figure < Seg7Num - 1 /\ board_pc' = board_pc /\ figure' = figure + 1
     \/ figure = Seg7Num - 1 /\ board_pc' = "ledr" /\ figure' = 0
  /\ UNCHANGED <<x_col, y_col, place>>

ShowX == board_pc = "ledr" /\ Iowr("ledr", 0) /\ Unchanged("ledg")
ShowY == board_pc = "ledg" /\ Iowr("ledg", 0) /\ Unchanged("x")
Set_Cursor_X == board_pc = "x" /\ Iowr("vpg", VgaRegister(1)) /\ Unchanged("y")
Set_Cursor_Y == board_pc = "y" /\ Iowr("vpg", VgaRegister(2)) /\ Unchanged("pixel")

\* With a button, the pixel under the cursor.
DrawPixel ==
  board_pc = "pixel" /\ Iowr("vpg", VgaPixel(place[1], place[2])) /\ Unchanged("place")
NoButton == board_pc = "pixel" /\ Unchanged("place") /\ UNCHANGED bus

BoardInit ==
  /\ board_pc = "on" /\ x_col = 0 /\ y_col = 0 /\ place = <<320, 240>> /\ figure = 0
  /\ bus = [slave |-> "vpg", address |-> Slave("vpg")[1]]
  /\ digits = [k \in 1 .. Seg7Num |-> 0]

BoardNext ==
  \/ SwitchOn \/ Vga_clear_screen \/ Set_Colours \/ (\E p \in Places : MoveTo(p))
  \/ SEG7_Hex \/ ShowX \/ ShowY \/ Set_Cursor_X \/ Set_Cursor_Y \/ DrawPixel \/ NoButton
BoardSpec == BoardInit /\ [][BoardNext]_boardVars
-----------------------------------------------------------------------------
(* Every access reaches the slave it is meant for and no other, for the    *)
(* last word of the screen's memory and registers as for the first.        *)
ReachesItsSlave == Decode(bus.address) = {bus.slave}

\* The word of the screen the next access is to.
Word == (bus'.address - Slave("vpg")[1]) \div 4

(* Wiping the screen leaves no pixel out and touches no register: each     *)
(* access is to the word behind the one before, from the first pixel to    *)
(* the last, and only then are the colours set.                            *)
ClearsEveryPixel ==
  [][board_pc = "clear" =>
       /\ Word = y_col * VgaWidth + x_col /\ Word < OsdMemAddr
       /\ IF board_pc' = "clear" THEN y_col' * VgaWidth + x_col' = Word + 1
          ELSE Word = OsdMemAddr - 1]_boardVars

(* When the digits have been written, what they show is the place of the   *)
(* cursor: no two figures look alike and none is lost.                     *)
DigitsShowPlace ==
  board_pc = "ledr" => \A p \in Places :
    (\A k \in 1 .. Seg7Num : digits[k] = SzMap[Figure(Shown(p), k - 1) + 1]) => p = place

(* The displays show the place of the cursor: all three, for main() and    *)
(* its loops.                                                              *)
BoardShowsThePlace == [](ReachesItsSlave /\ DigitsShowPlace) /\ ClearsEveryPixel
=============================================================================
