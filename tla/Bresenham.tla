----------------------------- MODULE Bresenham -----------------------------
(***************************************************************************)
(* EDC/bresenham.v: draws one line, a pixel a clock.  A line is given by   *)
(* its two end points; the unit exchanges x and y when the line is steep   *)
(* and the end points when they run backwards, and then steps along x,     *)
(* deciding by an error term when y moves.                                 *)
(*                                                                         *)
(* The coordinate registers are signed and P_X_COORD_W bits wide (both     *)
(* widths are the same wherever the unit is used): Half is 2^(P_X_COORD_W  *)
(* - 1), and inputs are below it when they are to be taken as given.       *)
(***************************************************************************)
EXTENDS Integers

CONSTANTS Half,    \* half the range of a coordinate register
          Coords   \* the coordinates that occur

ASSUME CoordsAssumption ==
  /\ Half \in Nat \ {0}
  /\ Coords \subseteq 0 .. Half - 1

Point == [x : Coords, y : Coords]
Line  == [from : Point, to : Point]

VARIABLES
  bres_state, x, x0, x1, y, y0, y1, delta_x, delta_y, error, ystep, steep,
  vals_rdy, o_x_val, o_y_val

bresVars == <<bres_state, x, x0, x1, y, y0, y1, delta_x, delta_y, error, ystep,
              steep, vals_rdy, o_x_val, o_y_val>>

\* A value as a signed register of this width holds it.
Signed(v) == ((v + Half) % (2 * Half)) - Half

Distance(a, b) == IF b > a THEN Signed(b - a) ELSE Signed(a - b)

bres_waiting == bres_state = "WAITING"

BresInit ==
  /\ bres_state = "WAITING"
  /\ x = 0 /\ x0 = 0 /\ x1 = 0 /\ y = 0 /\ y0 = 0 /\ y1 = 0
  /\ delta_x = 0 /\ delta_y = 0 /\ error = 0 /\ ystep = 1 /\ steep = FALSE
  /\ vals_rdy = FALSE /\ o_x_val = 0 /\ o_y_val = 0

\* Reset leaves the registers that are set up for each line alone.
BresReset ==
  /\ bres_state' = "WAITING"
  /\ x' = 0 /\ x0' = 0 /\ x1' = 0 /\ y' = 0 /\ y0' = 0 /\ y1' = 0
  /\ error' = 0
  /\ UNCHANGED <<delta_x, delta_y, ystep, steep, vals_rdy, o_x_val, o_y_val>>

Load(i_load_vals, l) ==
  /\ bres_state = "WAITING"
  /\ vals_rdy' = FALSE
  /\ IF i_load_vals
     THEN /\ bres_state' = "SETUP_IS_STEEP"
          /\ x0' = Signed(l.from.x) /\ y0' = Signed(l.from.y)
          /\ x1' = Signed(l.to.x)   /\ y1' = Signed(l.to.y)
          /\ error' = 0
     ELSE UNCHANGED <<bres_state, x0, y0, x1, y1, error>>
  /\ UNCHANGED <<x, y, delta_x, delta_y, ystep, steep, o_x_val, o_y_val>>

SetupIsSteep ==
  /\ bres_state = "SETUP_IS_STEEP"
  /\ bres_state' = "SETUP_REV_COORDS"
  /\ steep' = (Distance(y0, y1) > Distance(x0, x1))
  /\ vals_rdy' = FALSE
  /\ UNCHANGED <<x, x0, x1, y, y0, y1, delta_x, delta_y, error, ystep,
                 o_x_val, o_y_val>>

\* The end points as the drawing loop wants them, a before b.
Ordered(ax, ay, bx, by) ==
  IF ax > bx THEN /\ x0' = bx /\ y0' = by /\ x1' = ax /\ y1' = ay
                  /\ delta_x' = Signed(ax - bx)
             ELSE /\ x0' = ax /\ y0' = ay /\ x1' = bx /\ y1' = by
                  /\ delta_x' = Signed(bx - ax)

SetupRevCoords ==
  /\ bres_state = "SETUP_REV_COORDS"
  /\ bres_state' = "SETUP_ERROR_AND_STEP"
  /\ IF steep THEN Ordered(y0, x0, y1, x1) /\ delta_y' = Distance(x0, x1)
              ELSE Ordered(x0, y0, x1, y1) /\ delta_y' = Distance(y0, y1)
  /\ vals_rdy' = FALSE
  /\ UNCHANGED <<x, y, error, ystep, steep, o_x_val, o_y_val>>

SetupErrorAndStep ==
  /\ bres_state = "SETUP_ERROR_AND_STEP"
  /\ bres_state' = "DRAWING"
  /\ error' = delta_x \div 2
  /\ ystep' = IF y0 < y1 THEN 1 ELSE -1
  /\ x' = x0 /\ y' = y0
  /\ vals_rdy' = FALSE
  /\ UNCHANGED <<x0, x1, y0, y1, delta_x, delta_y, steep, o_x_val, o_y_val>>

\* (Mutant: y moves one pixel late.)
YMovesLate == error < 0
YMoves     == error - delta_y < 0

LastPixel         == x = x1

Drawing ==
  /\ bres_state = "DRAWING"
  /\ bres_state' = IF LastPixel THEN "WAITING" ELSE "DRAWING"
  /\ o_x_val' = IF steep THEN y ELSE x
  /\ o_y_val' = IF steep THEN x ELSE y
  /\ x' = Signed(x + 1)
  /\ IF YMoves THEN /\ error' = Signed(error - delta_y + delta_x)
                    /\ y' = Signed(y + ystep)
               ELSE error' = Signed(error - delta_y) /\ UNCHANGED y
  /\ vals_rdy' = TRUE
  /\ UNCHANGED <<x0, x1, y0, y1, delta_x, delta_y, ystep, steep>>

BresClock(i_reset, i_load_vals, l) ==
  IF i_reset THEN BresReset
  ELSE \/ Load(i_load_vals, l)
       \/ SetupIsSteep
       \/ SetupRevCoords
       \/ SetupErrorAndStep
       \/ Drawing

Abs(n) == IF n < 0 THEN -n ELSE n
LargerOf(a, b) == IF a > b THEN a ELSE b

\* The registers of the unit stay in the range of their width.
BresTypeOK ==
  /\ bres_state \in {"WAITING", "SETUP_IS_STEEP", "SETUP_REV_COORDS",
                     "SETUP_ERROR_AND_STEP", "DRAWING"}
  /\ {x, x0, x1, y, y0, y1, delta_x, delta_y, error, o_x_val, o_y_val}
       \subseteq -Half .. Half - 1
  /\ ystep \in {-1, 1} /\ steep \in BOOLEAN /\ vals_rdy \in BOOLEAN
=============================================================================
