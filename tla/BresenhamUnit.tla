--------------------------- MODULE BresenhamUnit ---------------------------
(***************************************************************************)
(* The line unit of module Bresenham on its own, with the pixels it hands  *)
(* out compared with the line it was asked for.  (What a reset leaves of a *)
(* line is in DrawLines.)                                                  *)
(***************************************************************************)
EXTENDS Bresenham

(***************************************************************************)
(* The unit on its own: a line is asked for in "line" (history) and the    *)
(* pixels handed out for it since are collected in "drawn" (history), as   *)
(* the screen buffer would: one clock after Drawing made them.             *)
(***************************************************************************)
VARIABLES line, drawn

unitVars == <<bresVars, line, drawn>>

Unit ==
  \E i_load_vals \in BOOLEAN :
  LET loading == bres_waiting /\ i_load_vals IN
  \E l \in IF loading THEN Line ELSE {line} :
    /\ BresClock(FALSE, i_load_vals, l)
    /\ line' = IF loading THEN l ELSE line
    /\ drawn' = IF loading THEN {}
                ELSE IF vals_rdy' THEN drawn \cup {[x |-> o_x_val', y |-> o_y_val']}
                ELSE drawn

UnitInit == BresInit /\ line \in Line /\ drawn = {}
UnitSpec == UnitInit /\ [][Unit]_unitVars

(***************************************************************************)
(* Properties.                                                             *)
(***************************************************************************)
\* The length of a line along its longer axis.
Length(l) == LargerOf(Abs(l.to.x - l.from.x), Abs(l.to.y - l.from.y))

\* p is within half a pixel of the ideal line l, and between its ends.
Near(p, l) ==
  LET dx == l.to.x - l.from.x
      dy == l.to.y - l.from.y IN
  /\ 2 * Abs((p.x - l.from.x) * dy - (p.y - l.from.y) * dx) <= Length(l)
  /\ \E a, b \in {l.from, l.to} : a.x <= p.x /\ p.x <= b.x
  /\ \E a, b \in {l.from, l.to} : a.y <= p.y /\ p.y <= b.y

\* Every pixel handed out lies on the line asked for, to half a pixel.
PixelsOnLine == \A p \in drawn : Near(p, line)

(***************************************************************************)
(* When the unit waits again, it has drawn the whole line: both end points *)
(* are there and there is one pixel for each step along the longer axis.   *)
(***************************************************************************)
Major(p) == IF Abs(line.to.x - line.from.x) >= Abs(line.to.y - line.from.y)
            THEN p.x ELSE p.y

WholeLine ==
  bres_waiting /\ drawn # {} =>
    /\ {line.from, line.to} \subseteq drawn
    /\ \A p, q \in drawn : Major(p) = Major(q) => p = q
    /\ \A p \in drawn : p \in {line.from, line.to}
                        \/ \E q \in drawn : Major(q) = Major(p) + 1

(***************************************************************************)
(* The error term is never overdrawn: between two pixels it is a           *)
(* remainder of the longer side, which is what keeps y on the line.        *)
(***************************************************************************)
ErrorIsRemainder ==
  bres_state = "DRAWING" /\ x <= x1
    => error \in 0 .. LargerOf(delta_x - 1, 0)

\* A line is whole and straight, and what it is calculated with keeps its range.
LineIsDrawn == BresTypeOK /\ PixelsOnLine /\ WholeLine /\ ErrorIsRemainder
=============================================================================
