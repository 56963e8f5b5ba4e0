------------------------------ MODULE VgaScan -------------------------------
(***************************************************************************)
(* How the drawer's picture gets to a monitor: clk_divider.v makes the     *)
(* pixel clock, vga_controller_640_60.v counts pixels and lines and makes  *)
(* the sync pulses, and the second port of the screen buffer is read at    *)
(* the counters' place with every edge of the fast clock (draw_lines.v).   *)
(* A pixel of the buffer is known by its address.  The monitor is          *)
(* external: it sees the sync pulses and counts from their first edges.    *)
(***************************************************************************)
EXTENDS Integers

CONSTANTS HLINES, HFP, HSP, HMAX, \* visible columns, ends of front porch and pulse, last column
          VLINES, VFP, VSP, VMAX, \* the same of the lines
          P_DIV_FACTOR            \* fast clocks in a pixel
SizesAreReal ==
  /\ {HLINES, HFP, HSP, HMAX, VLINES, VFP, VSP, VMAX, P_DIV_FACTOR} \subseteq Nat \ {0}
  /\ HLINES < HFP /\ HFP < HSP /\ HSP < HMAX /\ VLINES < VFP /\ VFP < VSP /\ VSP < VMAX
  /\ P_DIV_FACTOR % 2 = 0

VARIABLES clk_counter, tmp_clk,        \* the divider
          hcounter, vcounter,
          HS, VS, blank,
          pixel,                       \* the address whose pixel is put out
          pixels, lines                \* the monitor: since the pulses began
divider == <<clk_counter, tmp_clk>>
controller == <<hcounter, vcounter, HS, VS, blank>>
monitor == <<pixels, lines>>
scanVars == <<divider, controller, pixel, monitor>>
Unknown == -1

i_b_addr == HLINES * vcounter + hcounter
LastClock == clk_counter >= P_DIV_FACTOR \div 2
PixelEdge == LastClock /\ tmp_clk = 0
Divide ==
  IF LastClock THEN clk_counter' = 1 /\ tmp_clk' = 1 - tmp_clk
  ELSE clk_counter' = clk_counter + 1 /\ UNCHANGED tmp_clk

NextColumn == IF hcounter = HMAX THEN 0 ELSE hcounter + 1
NextLine ==
  IF hcounter # HMAX THEN vcounter ELSE IF vcounter = VMAX THEN 0 ELSE vcounter + 1
VideoEnableOneMore == hcounter <= HLINES /\ vcounter < VLINES (* Mutant: a column too many *)
video_enable == hcounter < HLINES /\ vcounter < VLINES
Pulse(counter, begin, end) == IF counter >= begin /\ counter < end THEN 0 ELSE 1
CountPixel ==
  /\ hcounter' = NextColumn /\ vcounter' = NextLine
  /\ blank' = (IF video_enable THEN 0 ELSE 1)
  /\ HS' = Pulse(hcounter, HFP, HSP) /\ VS' = Pulse(vcounter, VFP, VSP)

\* A line begins with the pulse of HS, a frame with that of VS.
Follow ==
  /\ pixels' = IF HS = 1 /\ HS' = 0 THEN 0 ELSE IF pixels = Unknown THEN Unknown ELSE pixels + 1
  /\ lines' = IF VS = 1 /\ VS' = 0 THEN 0
              ELSE IF HS = 1 /\ HS' = 0 /\ lines # Unknown THEN lines + 1 ELSE lines

\* A rising edge of i_clk.  The buffer is read where the counters stood before it.
ScanClock ==
  /\ Divide
  /\ pixel' = i_b_addr
  /\ IF PixelEdge THEN CountPixel /\ Follow ELSE UNCHANGED <<controller, monitor>>

ScanInit ==
  /\ clk_counter = 1 /\ tmp_clk = 0 /\ hcounter = 0 /\ vcounter = 0
  /\ HS \in 0 .. 1 /\ VS \in 0 .. 1 /\ blank \in 0 .. 1
  /\ pixel = 0 /\ pixels = Unknown /\ lines = Unknown
ScanSpec == ScanInit /\ [][ScanClock]_scanVars /\ WF_scanVars(ScanClock)
-----------------------------------------------------------------------------
(* Counters and registers keep their ranges, and the monitor never counts  *)
(* past a line or a frame: a pulse comes in time.                          *)
ScanTypeOK ==
  /\ clk_counter \in 1 .. P_DIV_FACTOR /\ tmp_clk \in 0 .. 1
  /\ hcounter \in 0 .. HMAX /\ vcounter \in 0 .. VMAX
  /\ {HS, VS, blank} \subseteq 0 .. 1
  /\ pixels \in Unknown .. HMAX /\ lines \in Unknown .. VMAX + 1
  /\ pixel \in 0 .. HLINES * VMAX + HMAX

Column == pixels - (HMAX + 1 - HFP)
Row == lines - (VMAX + 1 - VFP)
OnMonitor == Column \in 0 .. HLINES - 1 /\ Row \in 0 .. VLINES - 1
InStep == pixels # Unknown /\ lines # Unknown
JustMoved == tmp_clk = 1 /\ clk_counter = 1

(* The picture stands still and fills the screen: wherever the monitor is  *)
(* on its screen colours are let through, and nowhere else, and each place *)
(* always gets the same pixel.  That is, for one fast clock, the place's   *)
(* own pixel, and then the one to the right of it: blank comes with the    *)
(* pixel clock, one pixel after the counters, and the buffer does not.     *)
(* (vga_controller_640_60.v:24-50, draw_lines.v:196)                       *)
PictureStands ==
  InStep => /\ blank = 0 <=> OnMonitor
            /\ OnMonitor => pixel = HLINES * Row + Column + (IF JustMoved THEN 0 ELSE 1)

(* The scan keeps its ranges and the picture its place.                    *)
ScanIsRight == ScanTypeOK /\ PictureStands

=============================================================================
