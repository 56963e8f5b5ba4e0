------------------------------ MODULE LineProofs ------------------------------
(***************************************************************************)
(* Theorems about the picture drawer, part by part.  For every width of    *)
(* the coordinate registers, every size of screen and queue, and every     *)
(* line whose coordinates fit: the unit draws its lines, on its own        *)
(* (BresenhamUnit) and behind the queue (DrawLines), and the picture is    *)
(* complete.  For every screen and every length of porches and pulses: a   *)
(* monitor sees the picture stand where it should (VgaScan).               *)
(***************************************************************************)
EXTENDS DrawLines, BresenhamUnit, VgaScan, TLAPS

(***************************************************************************)
(* What the registers of a line mean, once it is set up: u runs along the  *)
(* longer axis of the line, v across it, and (x0, y0) and (x1, y1) are its *)
(* ends in these coordinates, the one with the smaller u first.            *)
(***************************************************************************)
U(p) == IF steep THEN p.y ELSE p.x
V(p) == IF steep THEN p.x ELSE p.y

Pixel(u, v) == IF steep THEN [x |-> v, y |-> u] ELSE [x |-> u, y |-> v]

IsSteep(l) == Abs(l.to.y - l.from.y) > Abs(l.to.x - l.from.x)

LoadedFor(l) == /\ x0 = l.from.x /\ y0 = l.from.y
                /\ x1 = l.to.x /\ y1 = l.to.y

EndsOf(a, b) == x0 = U(a) /\ y0 = V(a) /\ x1 = U(b) /\ y1 = V(b)

SetUp(l) ==
  /\ steep = IsSteep(l)
  /\ EndsOf(l.from, l.to) \/ EndsOf(l.to, l.from)
  /\ x0 <= x1
  /\ delta_x = x1 - x0 /\ delta_y = Abs(y1 - y0)
  /\ delta_y <= delta_x

\* How far v has come from its start towards its end.
rise == IF y0 < y1 THEN y - y0 ELSE y0 - y

(***************************************************************************)
(* A line of length dx and height dy is followed when, j steps from its    *)
(* start and r steps up, the error term e is what the straight line and    *)
(* the pixels differ by, in units of 1 / dx and shifted by half a pixel,   *)
(* and is a remainder of dx: that is what keeps the pixels on the line.    *)
(***************************************************************************)
Followed(dx, dy, j, r, e) ==
  /\ j \in 0 .. dx /\ r \in 0 .. dy
  /\ e \in 0 .. LargerOf(dx - 1, 0)
  /\ e = dx \div 2 - j * dy + r * dx

OnCourse ==
  /\ ystep = IF y0 < y1 THEN 1 ELSE -1
  /\ Followed(delta_x, delta_y, x - x0, rise, error)

\* A pixel in (u, v) is near the line from (x0, y0) to (x1, y1), ahead of n.
NearAhead(u, v, n) ==
  /\ u \in x0 .. n - 1
  /\ v \in (y0 .. y1) \cup (y1 .. y0)
  /\ 2 * Abs((u - x0) * (y1 - y0) - (v - y0) * delta_x) <= delta_x

\* The pixels drawn are those with u below n, one for each.
DrawnTo(n) ==
  /\ \A p \in drawn : p = Pixel(U(p), V(p)) /\ NearAhead(U(p), V(p), n)
  /\ \A p, q \in drawn : U(p) = U(q) => p = q
  /\ \A p \in drawn : U(p) < n - 1 => \E q \in drawn : U(q) = U(p) + 1
  /\ n > x0 => Pixel(x0, y0) \in drawn /\ \E p \in drawn : U(p) = n - 1

Small == {x0, x1, y0, y1, delta_x, delta_y} \subseteq 0 .. Half - 1

\* The lines whose coordinates fit into the registers.
Fitting == [x : 0 .. Half - 1, y : 0 .. Half - 1]
FittingLine == [from : Fitting, to : Fitting]

(***************************************************************************)
(* The unit is at work on the line l, in the stage its state says.         *)
(***************************************************************************)
Course(l) ==
  /\ BresTypeOK /\ Small
  /\ l \in FittingLine
  /\ bres_state = "SETUP_IS_STEEP" => LoadedFor(l)
  /\ bres_state = "SETUP_REV_COORDS" => LoadedFor(l) /\ steep = IsSteep(l)
  /\ bres_state = "SETUP_ERROR_AND_STEP" => SetUp(l)
  /\ bres_state = "DRAWING" => SetUp(l) /\ OnCourse

\* On its own it has drawn as much of its line as it has gone along it.
UnitInv ==
  /\ Course(line)
  /\ line \in Line
  /\ bres_state \in {"SETUP_IS_STEEP", "SETUP_REV_COORDS", "SETUP_ERROR_AND_STEP"}
       => drawn = {}
  /\ bres_state = "DRAWING" => DrawnTo(x)
  /\ bres_state = "WAITING" /\ drawn # {} =>
       SetUp(line) /\ DrawnTo(x1 + 1) /\ Pixel(x1, y1) \in drawn

(***************************************************************************)
(* Arithmetic of the unit.                                                 *)
(***************************************************************************)

\* A register takes what fits as it is, and always holds something that fits.
LEMMA SignedFits ==
  /\ \A v \in Int : Signed(v) \in -Half .. Half - 1
  /\ \A v \in -Half .. Half - 1 : Signed(v) = v
<1>1. Half \in Nat \ {0}
  BY CoordsAssumption
<1>2. ASSUME NEW v \in Int PROVE Signed(v) \in -Half .. Half - 1
  <2>1. (v + Half) % (2 * Half) \in 0 .. 2 * Half - 1
    BY <1>1
  <2>2. QED
    BY <1>1, <2>1 DEF Signed
<1>3. ASSUME NEW v \in -Half .. Half - 1 PROVE Signed(v) = v
  <2>1. v + Half \in 0 .. 2 * Half - 1
    BY <1>1
  <2>2. (v + Half) % (2 * Half) = v + Half
    BY <1>1, <2>1
  <2>3. QED
    BY <1>1, <2>2 DEF Signed
<1>4. QED
  BY <1>2, <1>3

\* Distance takes the smaller from the larger, so it never overflows.
LEMMA DistanceIsAbs ==
  ASSUME NEW a \in 0 .. Half - 1, NEW b \in 0 .. Half - 1
  PROVE  Distance(a, b) = Abs(b - a) /\ Abs(b - a) \in 0 .. Half - 1
<1>1. Half \in Nat \ {0}
  BY CoordsAssumption
<1>2. CASE b > a
  <2>1. b - a \in -Half .. Half - 1
    BY <1>1, <1>2
  <2>2. QED
    BY <1>1, <1>2, <2>1, SignedFits DEF Distance, Abs
<1>3. CASE ~(b > a)
  <2>1. a - b \in -Half .. Half - 1
    BY <1>1, <1>3
  <2>2. QED
    BY <1>1, <1>3, <2>1, SignedFits DEF Distance, Abs
<1>4. QED
  BY <1>2, <1>3

\* One step along a line of length dx and height dy, j steps from its start
\* and r steps up: the error term remains a remainder of dx.
LEMMA StepAlong ==
  ASSUME NEW dx \in Nat, NEW dy \in Nat, dy <= dx,
         NEW j \in Int, NEW r \in Int, NEW e \in Int,
         Followed(dx, dy, j, r, e), j < dx
  PROVE  IF e - dy < 0 THEN Followed(dx, dy, j + 1, r + 1, e - dy + dx)
                       ELSE Followed(dx, dy, j + 1, r, e - dy)
<1> USE DEF Followed
<1>1. (j + 1) * dy = j * dy + dy /\ (r + 1) * dx = r * dx + dx
  OBVIOUS
<1>2. dx \div 2 \in Nat /\ LargerOf(dx - 1, 0) = dx - 1
  BY DEF LargerOf
<1>3. j * dy \in Int /\ r * dx \in Int
  OBVIOUS
<1>4. CASE e - dy < 0
  <2>1. e - dy + dx \in 0 .. dx - 1
    BY <1>2, <1>4
  <2>2. e - dy + dx = dx \div 2 - (j + 1) * dy + (r + 1) * dx
    BY <1>1, <1>2, <1>3
  <2>3. r # dy
    <3>1. SUFFICES ASSUME r = dy PROVE FALSE
      OBVIOUS
    <3>2. (j + 1) * dy <= dx * dy
      BY j + 1 <= dx
    <3>3. (r + 1) * dx = dx * dy + dx
      BY <1>1, <3>1
    <3>4. QED
      BY <1>2, <2>1, <2>2, <3>2, <3>3
  <2>4. QED
    BY <1>2, <1>4, <2>1, <2>2, <2>3
<1>5. CASE ~(e - dy < 0)
  <2>1. e - dy \in 0 .. dx - 1
    BY <1>2, <1>5
  <2>2. e - dy = dx \div 2 - (j + 1) * dy + r * dx
    BY <1>1, <1>2, <1>3
  <2>3. QED
    BY <1>2, <1>5, <2>1, <2>2
<1>6. QED
  BY <1>4, <1>5

\* At the far end the whole height has been climbed; at the near end nothing.
LEMMA StepsAtEnds ==
  ASSUME NEW dx \in Nat, NEW dy \in Nat, dy <= dx,
         NEW j \in Int, NEW r \in Int, NEW e \in Int,
         Followed(dx, dy, j, r, e)
  PROVE  (j = 0 => r = 0) /\ (j = dx => r = dy)
<1> USE DEF Followed
<1>1. CASE dx = 0
  BY <1>1
<1>2. CASE dx # 0
  <2>1. e \in 0 .. dx - 1 /\ dx \div 2 \in Nat /\ dx \div 2 < dx
    BY <1>2 DEF LargerOf
  <2>2. ASSUME j = 0 PROVE r = 0
    <3>1. r * dx < dx
      BY <2>1, <2>2, j * dy = 0, r * dx \in Int
    <3>2. r >= 1 => r * dx >= dx
      OBVIOUS
    <3>3. QED
      BY <3>1, <3>2
  <2>3. ASSUME j = dx PROVE r = dy
    <3>1. (dy - r) * dx < dx
      <4>1. (dy - r) * dx = dy * dx - r * dx /\ j * dy = dy * dx
            /\ r * dx \in Int /\ dy * dx \in Int
        BY <2>3
      <4>2. QED
        BY <2>1, <4>1
    <3>2. dy - r >= 1 => (dy - r) * dx >= dx
      OBVIOUS
    <3>3. QED
      BY <3>1, <3>2
  <2>4. QED
    BY <2>2, <2>3
<1>3. QED
  BY <1>1, <1>2

(***************************************************************************)
(* The steps of the unit.                                                  *)
(***************************************************************************)

\* Ranges without sets, as the steps use them.
LEMMA RegisterRanges ==
  ASSUME BresTypeOK, Small
  PROVE  /\ Half \in Nat \ {0}
         /\ x0 \in 0 .. Half - 1 /\ x1 \in 0 .. Half - 1
         /\ y0 \in 0 .. Half - 1 /\ y1 \in 0 .. Half - 1
         /\ delta_x \in 0 .. Half - 1 /\ delta_y \in 0 .. Half - 1
         /\ x \in -Half .. Half - 1 /\ y \in -Half .. Half - 1
         /\ error \in -Half .. Half - 1
         /\ o_x_val \in -Half .. Half - 1 /\ o_y_val \in -Half .. Half - 1
  BY CoordsAssumption DEF BresTypeOK, Small

\* The same on the course of a line, whose coordinates fit as well.
LEMMA Ranges ==
  ASSUME NEW l, Course(l)
  PROVE  /\ Half \in Nat \ {0}
         /\ x0 \in 0 .. Half - 1 /\ x1 \in 0 .. Half - 1
         /\ y0 \in 0 .. Half - 1 /\ y1 \in 0 .. Half - 1
         /\ delta_x \in 0 .. Half - 1 /\ delta_y \in 0 .. Half - 1
         /\ x \in -Half .. Half - 1 /\ y \in -Half .. Half - 1
         /\ error \in -Half .. Half - 1
         /\ o_x_val \in -Half .. Half - 1 /\ o_y_val \in -Half .. Half - 1
         /\ l.from.x \in 0 .. Half - 1 /\ l.from.y \in 0 .. Half - 1
         /\ l.to.x \in 0 .. Half - 1 /\ l.to.y \in 0 .. Half - 1
  BY RegisterRanges DEF Course, FittingLine, Fitting

\* A line between coordinates that occur fits.
LEMMA LinesFit == Line \subseteq FittingLine
  BY CoordsAssumption DEF Line, Point, FittingLine, Fitting

\* A line is loaded as it is.
LEMMA CourseLoad ==
  ASSUME BresTypeOK, Small, NEW l \in FittingLine, Load(TRUE, l)
  PROVE  Course(l)' /\ vals_rdy' = FALSE
<1>1. /\ l.from.x \in 0 .. Half - 1 /\ l.from.y \in 0 .. Half - 1
      /\ l.to.x \in 0 .. Half - 1 /\ l.to.y \in 0 .. Half - 1
  BY DEF FittingLine, Fitting
<1>2. Half \in Nat \ {0}
  BY CoordsAssumption
<1>3. LoadedFor(l)'
  BY <1>1, <1>2, SignedFits DEF Load, LoadedFor
<1>4. BresTypeOK' /\ Small'
  <2>1. \A v \in 0 .. Half - 1 : v \in -Half .. Half - 1
    BY <1>2
  <2>2. /\ x0' \in 0 .. Half - 1 /\ x1' \in 0 .. Half - 1
        /\ y0' \in 0 .. Half - 1 /\ y1' \in 0 .. Half - 1
    BY <1>1, <1>3 DEF LoadedFor
  <2>3. error' \in 0 .. Half - 1
    BY <1>2 DEF Load
  <2>4. QED
    BY <2>1, <2>2, <2>3, RegisterRanges DEF Load, BresTypeOK, Small
<1>5. bres_state' = "SETUP_IS_STEEP"
  BY DEF Load
<1>6. vals_rdy' = FALSE
  BY DEF Load
<1>7. QED
  BY <1>3, <1>4, <1>5, <1>6 DEF Course, LoadedFor

\* The first of three states that set a line up.
LEMMA CourseIsSteep ==
  ASSUME NEW l, Course(l), SetupIsSteep
  PROVE  Course(l)' /\ vals_rdy' = FALSE
<1>1. /\ bres_state = "SETUP_IS_STEEP" /\ bres_state' = "SETUP_REV_COORDS"
      /\ UNCHANGED <<x, x0, x1, y, y0, y1, delta_x, delta_y, error, ystep,
                     o_x_val, o_y_val>>
  BY DEF SetupIsSteep
<1>2. LoadedFor(l) /\ l \in FittingLine
  BY <1>1 DEF Course
<1>3. Distance(y0, y1) = Abs(y1 - y0) /\ Distance(x0, x1) = Abs(x1 - x0)
  BY Ranges, DistanceIsAbs
<1>4. steep' = IsSteep(l)'
  BY <1>2, <1>3 DEF SetupIsSteep, IsSteep, LoadedFor
<1>5. vals_rdy' = FALSE /\ steep' \in BOOLEAN
  BY DEF SetupIsSteep
<1>6. BresTypeOK' /\ Small'
  BY <1>1, <1>5 DEF Course, BresTypeOK, Small
<1>7. QED
  BY <1>1, <1>2, <1>4, <1>5, <1>6 DEF Course, LoadedFor

\* The second: the ends are exchanged, and the axes, as the line needs it.
LEMMA CourseRevCoords ==
  ASSUME NEW l, Course(l), SetupRevCoords
  PROVE  Course(l)' /\ vals_rdy' = FALSE
<1>0. /\ Half \in Nat \ {0}
      /\ x0 \in 0 .. Half - 1 /\ x1 \in 0 .. Half - 1
      /\ y0 \in 0 .. Half - 1 /\ y1 \in 0 .. Half - 1
  BY Ranges
<1>1. /\ bres_state = "SETUP_REV_COORDS" /\ bres_state' = "SETUP_ERROR_AND_STEP"
      /\ UNCHANGED <<x, y, error, ystep, steep, o_x_val, o_y_val>>
      /\ vals_rdy' = FALSE
  BY DEF SetupRevCoords
<1>2. /\ l \in FittingLine /\ LoadedFor(l) /\ steep = IsSteep(l)
      /\ steep \in BOOLEAN
  BY <1>1 DEF Course, BresTypeOK
<1>3. /\ Distance(y0, y1) = Abs(y1 - y0) /\ Abs(y1 - y0) \in 0 .. Half - 1
      /\ Distance(x0, x1) = Abs(x1 - x0) /\ Abs(x1 - x0) \in 0 .. Half - 1
  BY Ranges, DistanceIsAbs
<1>4. \A a, b \in 0 .. Half - 1 : a >= b => Signed(a - b) = a - b
                                           /\ a - b \in 0 .. Half - 1
  <2> SUFFICES ASSUME NEW a \in 0 .. Half - 1, NEW b \in 0 .. Half - 1, a >= b
               PROVE  Signed(a - b) = a - b /\ a - b \in 0 .. Half - 1
    OBVIOUS
  <2>1. a - b \in 0 .. Half - 1 /\ a - b \in -Half .. Half - 1
    BY Ranges
  <2>2. QED
    BY <2>1, SignedFits
<1>5. /\ Abs(x0 - x1) = Abs(x1 - x0) /\ Abs(y0 - y1) = Abs(y1 - y0)
      /\ Abs(x1 - x0) = IF x0 > x1 THEN x0 - x1 ELSE x1 - x0
      /\ Abs(y1 - y0) = IF y0 > y1 THEN y0 - y1 ELSE y1 - y0
      /\ steep = (Abs(y1 - y0) > Abs(x1 - x0))
  <2>1. steep = (Abs(y1 - y0) > Abs(x1 - x0))
    BY <1>2 DEF LoadedFor, IsSteep
  <2>2. QED
    BY <2>1, Ranges DEF Abs
<1>6. /\ EndsOf(l.from, l.to)' \/ EndsOf(l.to, l.from)'
      /\ x0' <= x1' /\ delta_x' = x1' - x0' /\ delta_y' = Abs(y1' - y0')
      /\ x0' \in 0 .. Half - 1 /\ x1' \in 0 .. Half - 1
      /\ y0' \in 0 .. Half - 1 /\ y1' \in 0 .. Half - 1
      /\ delta_x' \in 0 .. Half - 1 /\ delta_y' \in 0 .. Half - 1
      /\ delta_x' = IF steep THEN Abs(y1 - y0) ELSE Abs(x1 - x0)
      /\ delta_y' = IF steep THEN Abs(x1 - x0) ELSE Abs(y1 - y0)
  <2>1. CASE steep /\ y0 > y1
    <3>1. x0' = y1 /\ x1' = y0 /\ y0' = x1 /\ y1' = x0
          /\ delta_x' = y0 - y1 /\ delta_y' = Abs(x1 - x0)
      BY <1>3, <1>4, <2>1, Ranges DEF SetupRevCoords, Ordered
    <3>2. EndsOf(l.from, l.to)' \/ EndsOf(l.to, l.from)'
      BY <1>1, <1>2, <2>1, <3>1 DEF LoadedFor, EndsOf, U, V
    <3>3. QED
      BY ONLY <1>3, <1>5, <2>1, <3>1, <3>2, <1>0
  <2>2. CASE steep /\ ~(y0 > y1)
    <3>1. x0' = y0 /\ x1' = y1 /\ y0' = x0 /\ y1' = x1
          /\ delta_x' = y1 - y0 /\ delta_y' = Abs(x1 - x0)
      BY <1>3, <1>4, <2>2, Ranges DEF SetupRevCoords, Ordered
    <3>2. EndsOf(l.from, l.to)' \/ EndsOf(l.to, l.from)'
      BY <1>1, <1>2, <2>2, <3>1 DEF LoadedFor, EndsOf, U, V
    <3>3. QED
      BY ONLY <1>3, <1>5, <2>2, <3>1, <3>2, <1>0
  <2>3. CASE ~steep /\ x0 > x1
    <3>1. x0' = x1 /\ x1' = x0 /\ y0' = y1 /\ y1' = y0
          /\ delta_x' = x0 - x1 /\ delta_y' = Abs(y1 - y0)
      BY <1>3, <1>4, <2>3, Ranges DEF SetupRevCoords, Ordered
    <3>2. EndsOf(l.from, l.to)' \/ EndsOf(l.to, l.from)'
      BY <1>1, <1>2, <2>3, <3>1 DEF LoadedFor, EndsOf, U, V
    <3>3. QED
      BY ONLY <1>3, <1>5, <2>3, <3>1, <3>2, <1>0
  <2>4. CASE ~steep /\ ~(x0 > x1)
    <3>1. x0' = x0 /\ x1' = x1 /\ y0' = y0 /\ y1' = y1
          /\ delta_x' = x1 - x0 /\ delta_y' = Abs(y1 - y0)
      BY <1>3, <1>4, <2>4, Ranges DEF SetupRevCoords, Ordered
    <3>2. EndsOf(l.from, l.to)' \/ EndsOf(l.to, l.from)'
      BY <1>1, <1>2, <2>4, <3>1 DEF LoadedFor, EndsOf, U, V
    <3>3. QED
      BY ONLY <1>3, <1>5, <2>4, <3>1, <3>2, <1>0
  <2>5. QED
    BY <1>2, <2>1, <2>2, <2>3, <2>4
<1>7. BresTypeOK' /\ Small'
  <2>1. \A v \in 0 .. Half - 1 : v \in -Half .. Half - 1
    BY Ranges
  <2>2. QED
    BY <1>1, <1>6, <2>1 DEF Course, BresTypeOK, Small
<1>8. SetUp(l)'
  <2>1. steep' = IsSteep(l)'
    BY <1>1, <1>2 DEF IsSteep
  <2>2. delta_y' <= delta_x'
    <3>0. steep = (Abs(y1 - y0) > Abs(x1 - x0))
      BY <1>5
    <3>1. CASE steep
      <4>1. Abs(y1 - y0) > Abs(x1 - x0)
        BY ONLY <3>0, <3>1, Zenon
      <4>2. delta_x' = Abs(y1 - y0) /\ delta_y' = Abs(x1 - x0)
        BY <1>6, <3>1
      <4>3. QED
        BY <1>3, <4>1, <4>2, Ranges
    <3>2. CASE ~steep
      <4>1. ~(Abs(y1 - y0) > Abs(x1 - x0))
        BY ONLY <3>0, <3>2, Zenon
      <4>2. delta_x' = Abs(x1 - x0) /\ delta_y' = Abs(y1 - y0)
        BY <1>6, <3>2
      <4>3. QED
        BY <1>3, <4>1, <4>2, Ranges
    <3>3. QED
      BY <1>2, <3>1, <3>2
  <2>3. QED
    BY <1>6, <2>1, <2>2 DEF SetUp
<1>9. QED
  BY <1>1, <1>2, <1>7, <1>8 DEF Course

\* The third: the unit stands at the start of its line.
LEMMA CourseErrorAndStep ==
  ASSUME NEW l, Course(l), SetupErrorAndStep
  PROVE  Course(l)' /\ SetUp(l)' /\ x' = x0' /\ vals_rdy' = FALSE
<1>1. /\ bres_state = "SETUP_ERROR_AND_STEP" /\ bres_state' = "DRAWING"
      /\ UNCHANGED <<x0, x1, y0, y1, delta_x, delta_y, steep, o_x_val, o_y_val>>
      /\ error' = delta_x \div 2 /\ ystep' = IF y0 < y1 THEN 1 ELSE -1
      /\ x' = x0 /\ y' = y0 /\ vals_rdy' = FALSE
  BY DEF SetupErrorAndStep
<1>2. l \in FittingLine /\ SetUp(l)
  BY <1>1 DEF Course
<1>3. SetUp(l)'
  BY <1>1, <1>2 DEF SetUp, EndsOf, U, V, IsSteep
<1>4. delta_x \div 2 \in 0 .. LargerOf(delta_x - 1, 0)
  BY Ranges DEF LargerOf
<1>5. OnCourse'
  <2>1. (x0 - x0) * delta_y = 0 /\ 0 * delta_x = 0
    BY Ranges
  <2>2. 0 \in 0 .. delta_x /\ 0 \in 0 .. delta_y /\ delta_x \div 2 \in Int
    BY Ranges
  <2>3. rise' = 0
    BY <1>1, Ranges DEF rise
  <2>4. QED
    BY <1>1, <1>4, <2>1, <2>2, <2>3, Ranges DEF OnCourse, Followed
<1>6. BresTypeOK' /\ Small'
  <2>1. delta_x \div 2 \in -Half .. Half - 1
    BY Ranges
  <2>2. x0 \in -Half .. Half - 1 /\ y0 \in -Half .. Half - 1
    BY Ranges
  <2>3. QED
    BY <1>1, <2>1, <2>2 DEF Course, BresTypeOK, Small
<1>7. QED
  BY <1>1, <1>2, <1>3, <1>5, <1>6 DEF Course

\* Where the unit is when it draws a pixel: between the ends of the line, and
\* near it.
LEMMA OnTheLine ==
  ASSUME NEW l, Course(l), SetUp(l), OnCourse
  PROVE  /\ y \in (y0 .. y1) \cup (y1 .. y0)
         /\ 2 * Abs((x - x0) * (y1 - y0) - (y - y0) * delta_x) <= delta_x
         /\ x = x1 => y = y1
         /\ x = x0 => y = y0
<1> DEFINE j == x - x0
           half == delta_x \div 2
<1>1. /\ rise \in 0 .. delta_y /\ j \in Nat
      /\ error \in 0 .. LargerOf(delta_x - 1, 0)
      /\ error = half - j * delta_y + rise * delta_x
      /\ delta_x \in Nat /\ delta_y \in Nat /\ delta_y <= delta_x
  BY Ranges DEF SetUp, OnCourse, Followed
<1>2. /\ y0 < y1 => y - y0 = rise /\ y1 - y0 = delta_y
      /\ ~(y0 < y1) => y - y0 = -rise /\ y1 - y0 = -delta_y
  <2>1. delta_y = Abs(y1 - y0)
    BY DEF SetUp
  <2>2. QED
    BY ONLY <2>1, Course(l), Ranges DEF rise, Abs
<1>3. y \in (y0 .. y1) \cup (y1 .. y0)
  <2>1. rise \in 0 .. delta_y
    BY <1>1
  <2>2. QED
    BY ONLY <1>2, <2>1, Course(l), Ranges
<1>4. (j = 0 => rise = 0) /\ (j = delta_x => rise = delta_y)
  <2>1. rise \in Int /\ j \in Int /\ error \in Int
    BY Ranges DEF rise
  <2>2. Followed(delta_x, delta_y, j, rise, error)
    BY DEF OnCourse
  <2>3. delta_x \in Nat /\ delta_y \in Nat /\ delta_y <= delta_x
    BY <1>1
  <2>4. QED
    BY ONLY <2>1, <2>2, <2>3, StepsAtEnds
<1>5. (x = x1 => y = y1) /\ (x = x0 => y = y0)
  <2>1. delta_x = x1 - x0
    BY DEF SetUp
  <2>2. rise \in Int
    BY ONLY Course(l), Ranges DEF rise
  <2>3. QED
    BY ONLY <1>2, <1>4, <2>1, <2>2, Course(l), Ranges
<1>6. half \in Nat /\ 2 * half <= delta_x /\ delta_x <= 2 * half + 1
  BY <1>1
<1>7. \/ j * (y1 - y0) - (y - y0) * delta_x = half - error
      \/ j * (y1 - y0) - (y - y0) * delta_x = error - half
  <2>1. CASE y0 < y1
    <3>1. j * (y1 - y0) - (y - y0) * delta_x = j * delta_y - rise * delta_x
      BY <1>2, <2>1
    <3>2. j * delta_y \in Int /\ rise * delta_x \in Int
      BY <1>1
    <3>3. QED
      BY <1>1, <1>6, <3>1, <3>2
  <2>2. CASE ~(y0 < y1)
    <3>1. j * (y1 - y0) - (y - y0) * delta_x = rise * delta_x - j * delta_y
      <4>1. j * (-delta_y) = -(j * delta_y)
            /\ (-rise) * delta_x = -(rise * delta_x)
            /\ j * delta_y \in Int /\ rise * delta_x \in Int
        BY <1>1
      <4>2. QED
        BY <1>2, <2>2, <4>1
    <3>2. j * delta_y \in Int /\ rise * delta_x \in Int
      BY <1>1
    <3>3. QED
      BY <1>1, <1>6, <3>1, <3>2
  <2>3. QED
    BY <2>1, <2>2
<1>8. 2 * Abs(j * (y1 - y0) - (y - y0) * delta_x) <= delta_x
  BY <1>1, <1>6, <1>7 DEF Abs, LargerOf
<1>9. QED
  BY <1>3, <1>5, <1>8

\* U and V read what Pixel writes.
LEMMA PixelCoordinates ==
  \A u, v : U(Pixel(u, v)) = u /\ V(Pixel(u, v)) = v
  BY DEF U, V, Pixel

\* The pixels drawn, with the one the unit is at.
LEMMA DrawsPixel ==
  ASSUME NEW l, Course(l), SetUp(l), OnCourse, DrawnTo(x), NEW n \in Int, n = x + 1,
         drawn' = drawn \cup {Pixel(x, y)},
         UNCHANGED <<x0, x1, y0, y1, steep, delta_x>>
  PROVE  DrawnTo(n)'
<1>1. x \in x0 .. x1 /\ x0 \in Int /\ x1 \in Int
  BY Ranges DEF SetUp, OnCourse, Followed
<1>2. \A p : U(p)' = U(p) /\ V(p)' = V(p)
  BY DEF U, V
<1>3. \A u, v : Pixel(u, v)' = Pixel(u, v)
  BY DEF Pixel
<1>4. \A p \in drawn : /\ p = Pixel(U(p), V(p)) /\ NearAhead(U(p), V(p), x)
                       /\ U(p) \in x0 .. x - 1
  BY DEF DrawnTo, NearAhead
<1> DEFINE new == Pixel(x, y)
<1>5. U(new) = x /\ V(new) = y
  BY PixelCoordinates
<1>6. NearAhead(x, y, n)
  BY <1>1, OnTheLine DEF NearAhead
<1>7. \A p \in drawn : NearAhead(U(p), V(p), n)
  BY <1>1, <1>4 DEF NearAhead
<1>8. \A p \in drawn' : p = Pixel(U(p), V(p)) /\ NearAhead(U(p), V(p), n)
  BY <1>4, <1>5, <1>6, <1>7
<1>9. \A p, q \in drawn' : U(p) = U(q) => p = q
  <2>1. \A p \in drawn : U(p) # x
    BY <1>1, <1>4
  <2>2. \A p, q \in drawn : U(p) = U(q) => p = q
    BY DEF DrawnTo
  <2>3. QED
    BY <1>5, <2>1, <2>2
<1>10. \A p \in drawn' : U(p) < n - 1 => \E q \in drawn' : U(q) = U(p) + 1
  <2> SUFFICES ASSUME NEW p \in drawn', U(p) < x
               PROVE  \E q \in drawn' : U(q) = U(p) + 1
    BY <1>1
  <2>1. p \in drawn /\ U(p) \in Int
    BY <1>1, <1>4, <1>5
  <2>2. CASE U(p) = x - 1
    BY <1>1, <1>5, <2>2
  <2>3. CASE U(p) < x - 1
    BY <2>1, <2>3 DEF DrawnTo
  <2>4. QED
    BY <1>1, <2>1, <2>2, <2>3
<1>11. Pixel(x0, y0) \in drawn' /\ \E p \in drawn' : U(p) = n - 1
  <2>1. CASE x = x0
    BY <1>1, <1>5, <2>1, OnTheLine
  <2>2. CASE x # x0
    BY <1>1, <1>5, <2>2 DEF DrawnTo
  <2>3. QED
    BY <2>1, <2>2
<1>12. \A u, v : NearAhead(u, v, n)' = NearAhead(u, v, n)
  BY DEF NearAhead
<1>13. QED
  BY <1>2, <1>3, <1>8, <1>9, <1>10, <1>11, <1>12 DEF DrawnTo

\* One pixel: the unit moves on along its line until it is at the end of it.
LEMMA CourseDrawing ==
  ASSUME NEW l, Course(l), Drawing
  PROVE  /\ Course(l)' /\ SetUp(l) /\ SetUp(l)' /\ OnCourse
         /\ UNCHANGED <<x0, x1, y0, y1, delta_x, delta_y, ystep, steep>>
         /\ [x |-> o_x_val', y |-> o_y_val'] = Pixel(x, y) /\ vals_rdy' = TRUE
         /\ x \in x0 .. x1
         /\ IF x = x1 THEN bres_state' = "WAITING"
                      ELSE bres_state' = "DRAWING" /\ x' = x + 1
<1>1. /\ bres_state = "DRAWING"
      /\ bres_state' = IF LastPixel THEN "WAITING" ELSE "DRAWING"
      /\ UNCHANGED <<x0, x1, y0, y1, delta_x, delta_y, ystep, steep>>
      /\ vals_rdy' = TRUE
  BY DEF Drawing
<1>2. SetUp(l) /\ OnCourse /\ l \in FittingLine
  BY <1>1 DEF Course
<1>3. SetUp(l)'
  BY <1>1, <1>2 DEF SetUp, EndsOf, U, V, IsSteep
<1>4. [x |-> o_x_val', y |-> o_y_val'] = Pixel(x, y)
  BY DEF Drawing, Pixel
<1>5. /\ x \in x0 .. x1 /\ delta_x = x1 - x0 /\ delta_x \in Nat
      /\ delta_y \in Nat /\ delta_y <= delta_x /\ delta_y = Abs(y1 - y0)
      /\ x \in 0 .. Half - 1
  BY <1>2, Ranges DEF SetUp, OnCourse, Followed
<1>6. y \in 0 .. Half - 1
  BY <1>2, OnTheLine, Ranges
<1>7. BresTypeOK' /\ Small'
  <2>1. /\ x' \in -Half .. Half - 1 /\ y' \in -Half .. Half - 1
        /\ error' \in -Half .. Half - 1
    <3>1. ystep \in Int
      BY <1>2 DEF OnCourse
    <3>2. QED
      BY <3>1, SignedFits, Ranges DEF Drawing
  <2>2. /\ o_x_val' \in -Half .. Half - 1 /\ o_y_val' \in -Half .. Half - 1
    BY <1>5, <1>6, Ranges DEF Drawing
  <2>3. bres_state' \in {"WAITING", "DRAWING"}
    BY <1>1
  <2>4. QED
    BY <1>1, <2>1, <2>2, <2>3 DEF Course, BresTypeOK, Small
<1>8. CASE LastPixel
  <2>1. x = x1
    BY <1>8 DEF LastPixel
  <2>2. QED
    BY <1>1, <1>2, <1>3, <1>4, <1>5, <1>7, <1>8, <2>1 DEF Course
<1>9. CASE ~LastPixel
  <2>1. x < x1 /\ x - x0 < delta_x /\ x # x1
    BY <1>5, <1>9, Ranges DEF LastPixel
  <2>2. x' = x + 1
    <3>1. x + 1 \in -Half .. Half - 1
      BY <2>1, Ranges
    <3>2. QED
      BY <3>1, SignedFits DEF Drawing
  <2>3. OnCourse'
    <3>1. rise \in Int /\ x - x0 \in Int /\ error \in Int
      BY Ranges DEF rise
    <3>2. IF error - delta_y < 0
          THEN Followed(delta_x, delta_y, x - x0 + 1, rise + 1,
                        error - delta_y + delta_x)
          ELSE Followed(delta_x, delta_y, x - x0 + 1, rise, error - delta_y)
      BY <1>2, <1>5, <2>1, <3>1, StepAlong DEF OnCourse
    <3>3. x' - x0' = x - x0 + 1
      BY <1>1, <2>2, Ranges
    <3>4. \A v \in 0 .. LargerOf(delta_x - 1, 0) : Signed(v) = v
      <4>1. \A v \in 0 .. LargerOf(delta_x - 1, 0) : v \in -Half .. Half - 1
        BY Ranges DEF LargerOf
      <4>2. QED
        BY <4>1, SignedFits
    <3>5. CASE error - delta_y < 0
      <4>1. Followed(delta_x, delta_y, x - x0 + 1, rise + 1,
                     error - delta_y + delta_x)
        BY <3>2, <3>5
      <4>2. error' = error - delta_y + delta_x
        BY <3>4, <3>5, <4>1 DEF Drawing, YMoves, Followed
      <4>3. rise + 1 \in 0 .. delta_y
        BY <4>1 DEF Followed
      <4>4. y' = y + ystep
        <5>1. y' = Signed(y + ystep)
          BY <3>5 DEF Drawing, YMoves
        <5>2. y + ystep \in -Half .. Half - 1
          BY <1>2, <1>5, <4>3, Ranges DEF OnCourse, rise, Abs
        <5>3. QED
          BY <5>1, <5>2, SignedFits
      <4>5. rise' = rise + 1
        BY <1>1, <1>2, <4>4, Ranges DEF OnCourse, rise
      <4>6. QED
        BY <1>1, <1>2, <3>3, <4>1, <4>2, <4>5 DEF OnCourse
    <3>6. CASE ~(error - delta_y < 0)
      <4>1. Followed(delta_x, delta_y, x - x0 + 1, rise, error - delta_y)
        BY <3>2, <3>6
      <4>2. error' = error - delta_y
        BY <3>4, <3>6, <4>1 DEF Drawing, YMoves, Followed
      <4>3. rise' = rise
        BY <1>1, <3>6 DEF Drawing, YMoves, rise
      <4>4. QED
        BY <1>1, <1>2, <3>3, <4>1, <4>2, <4>3 DEF OnCourse
    <3>7. QED
      BY <3>5, <3>6
  <2>4. QED
    BY <1>1, <1>2, <1>3, <1>4, <1>5, <1>7, <1>9, <2>1, <2>2, <2>3 DEF Course
<1>10. QED
  BY <1>8, <1>9

\* Handing out no pixel, and nothing else, keeps the unit on its course.
LEMMA CourseStays ==
  ASSUME NEW l, Course(l),
         UNCHANGED <<bres_state, x, x0, x1, y, y0, y1, delta_x, delta_y, error,
                     ystep, steep, o_x_val, o_y_val>>,
         vals_rdy' \in BOOLEAN
  PROVE  Course(l)'
  BY DEF Course, BresTypeOK, Small, LoadedFor, SetUp, OnCourse, EndsOf, U, V,
    IsSteep, rise

-----------------------------------------------------------------------------
(***************************************************************************)
(* The unit on its own.                                                    *)
(***************************************************************************)

\* A pixel more is drawn.
LEMMA UnitDrawing ==
  ASSUME UnitInv, Drawing, line' = line,
         drawn' = drawn \cup {[x |-> o_x_val', y |-> o_y_val']}
  PROVE  UnitInv'
<1>1. /\ Course(line)' /\ SetUp(line) /\ SetUp(line)' /\ OnCourse
      /\ UNCHANGED <<x0, x1, y0, y1, delta_x, delta_y, ystep, steep>>
      /\ drawn' = drawn \cup {Pixel(x, y)} /\ x \in x0 .. x1
      /\ IF x = x1 THEN bres_state' = "WAITING"
                   ELSE bres_state' = "DRAWING" /\ x' = x + 1
  BY CourseDrawing DEF UnitInv
<1>2. DrawnTo(x) /\ line' \in Line /\ Course(line)
  BY DEF UnitInv, Drawing
<1>3. PICK n \in Int : n = x + 1
  BY <1>2, Ranges
<1>4. DrawnTo(n)'
  BY <1>1, <1>2, <1>3, DrawsPixel
<1>5. CASE x = x1
  <2>1. y = y1
    BY <1>1, <1>2, <1>5, OnTheLine
  <2>2. Pixel(x1, y1)' \in drawn'
    BY <1>1, <1>5, <2>1 DEF Pixel
  <2>3. DrawnTo(x1 + 1)'
    BY <1>1, <1>3, <1>4, <1>5 DEF DrawnTo, NearAhead
  <2>4. QED
    BY <1>1, <1>2, <1>5, <2>2, <2>3 DEF UnitInv, SetUp
<1>6. CASE x # x1
  <2>1. DrawnTo(x)'
    BY <1>1, <1>3, <1>4, <1>6 DEF DrawnTo, NearAhead
  <2>2. QED
    BY <1>1, <1>2, <1>6, <2>1 DEF UnitInv
<1>7. QED
  BY <1>5, <1>6

\* Nothing is loaded.
LEMMA UnitWaits ==
  ASSUME UnitInv,
         UNCHANGED <<bres_state, x, x0, x1, y, y0, y1, delta_x, delta_y, error,
                     ystep, steep, o_x_val, o_y_val, line, drawn>>,
         vals_rdy' \in BOOLEAN
  PROVE  UnitInv'
  BY CourseStays DEF UnitInv, Course, SetUp, EndsOf, U, V, IsSteep, DrawnTo,
    NearAhead, Pixel

\* No pixel in the three states that set the line up.
LEMMA UnitSetsUp ==
  ASSUME UnitInv, SetupIsSteep \/ SetupRevCoords \/ SetupErrorAndStep,
         line' = line, drawn' = drawn
  PROVE  UnitInv'
<1>1. drawn' = {} /\ line' \in Line /\ Course(line)
  BY DEF UnitInv, SetupIsSteep, SetupRevCoords, SetupErrorAndStep
<1>2. CASE SetupIsSteep
  BY <1>1, <1>2, CourseIsSteep DEF UnitInv, SetupIsSteep
<1>3. CASE SetupRevCoords
  BY <1>1, <1>3, CourseRevCoords DEF UnitInv, SetupRevCoords
<1>4. CASE SetupErrorAndStep
  <2>1. Course(line)' /\ x' = x0' /\ bres_state' = "DRAWING"
    BY <1>1, <1>4, CourseErrorAndStep DEF SetupErrorAndStep
  <2>2. ~(x' > x0')
    BY <1>1, <1>4, <2>1, Ranges DEF SetupErrorAndStep
  <2>3. DrawnTo(x)'
    BY <1>1, <2>2 DEF DrawnTo
  <2>4. QED
    BY <1>1, <2>1, <2>3 DEF UnitInv
<1>5. QED
  BY <1>2, <1>3, <1>4

\* The invariant of the unit on its own is inductive.
LEMMA UnitStep == ASSUME UnitInv, [Unit]_unitVars PROVE UnitInv'
<1>1. CASE UNCHANGED unitVars
  BY <1>1, UnitWaits DEF unitVars, bresVars, UnitInv, Course, BresTypeOK
<1>2. CASE Unit
  <2>1. PICK i_load_vals \in BOOLEAN :
        \E l \in IF bres_waiting /\ i_load_vals THEN Line ELSE {line} :
          /\ BresClock(FALSE, i_load_vals, l)
          /\ line' = IF bres_waiting /\ i_load_vals THEN l ELSE line
          /\ drawn' = IF bres_waiting /\ i_load_vals THEN {}
                      ELSE IF vals_rdy'
                           THEN drawn \cup {[x |-> o_x_val', y |-> o_y_val']}
                           ELSE drawn
    BY <1>2 DEF Unit
  <2>2. PICK l \in IF bres_waiting /\ i_load_vals THEN Line ELSE {line} :
          /\ BresClock(FALSE, i_load_vals, l)
          /\ line' = IF bres_waiting /\ i_load_vals THEN l ELSE line
          /\ drawn' = IF bres_waiting /\ i_load_vals THEN {}
                      ELSE IF vals_rdy'
                           THEN drawn \cup {[x |-> o_x_val', y |-> o_y_val']}
                           ELSE drawn
    BY <2>1
  <2>3. CASE Load(i_load_vals, l) /\ i_load_vals
    <3>1. bres_waiting
      BY <2>3 DEF Load, bres_waiting
    <3>2. l \in Line /\ line' = l /\ drawn' = {} /\ Load(TRUE, l)
      BY <2>2, <2>3, <3>1
    <3>3. Course(l)'
      BY <3>2, CourseLoad, LinesFit DEF UnitInv, Course
    <3>4. bres_state' = "SETUP_IS_STEEP"
      BY <3>2 DEF Load
    <3>5. QED
      BY <3>2, <3>3, <3>4 DEF UnitInv, Course, LoadedFor
  <2>4. CASE Load(i_load_vals, l) /\ ~i_load_vals
    <3>1. /\ UNCHANGED <<bres_state, x, x0, x1, y, y0, y1, delta_x, delta_y,
                         error, ystep, steep, o_x_val, o_y_val>>
          /\ vals_rdy' = FALSE
      BY <2>4 DEF Load
    <3>2. line' = line /\ drawn' = drawn
      BY <2>2, <2>4, <3>1
    <3>3. QED
      BY <3>1, <3>2, UnitWaits
  <2>5. CASE SetupIsSteep \/ SetupRevCoords \/ SetupErrorAndStep
    <3>1. ~bres_waiting /\ vals_rdy' = FALSE
      BY <2>5 DEF SetupIsSteep, SetupRevCoords, SetupErrorAndStep, bres_waiting
    <3>2. line' = line /\ drawn' = drawn
      BY <2>2, <3>1
    <3>3. QED
      BY <2>5, <3>2, UnitSetsUp
  <2>6. CASE Drawing
    <3>1. ~bres_waiting /\ vals_rdy' = TRUE
      BY <2>6 DEF Drawing, bres_waiting
    <3>2. line' = line
          /\ drawn' = drawn \cup {[x |-> o_x_val', y |-> o_y_val']}
      BY <2>2, <3>1
    <3>3. QED
      BY <2>6, <3>2, UnitDrawing
  <2>7. QED
    BY <2>2, <2>3, <2>4, <2>5, <2>6 DEF BresClock
<1>3. QED
  BY <1>1, <1>2

\* It holds when the unit has done nothing.
LEMMA InitUnitInv == ASSUME UnitInit PROVE UnitInv
<1>1. Half \in Nat \ {0}
  BY CoordsAssumption
<1>2. 0 \in 0 .. Half - 1 /\ 0 \in -Half .. Half - 1
  BY <1>1
<1>3. BresTypeOK /\ Small
  BY <1>2 DEF UnitInit, BresInit, BresTypeOK, Small
<1>4. QED
  BY <1>3, LinesFit DEF UnitInit, BresInit, UnitInv, Course

(***************************************************************************)
(* From the coordinates of the unit back to the line asked for.            *)
(***************************************************************************)

\* Twice the area between the pixel (u, v) and the line from (a0, b0) to
\* (a1, b1).
Cross(u, v, a0, b0, a1, b1) == (u - a0) * (b1 - b0) - (v - b0) * (a1 - a0)

\* Distances do not depend on the direction.
LEMMA AbsOfMinus == \A n \in Int : Abs(-n) = Abs(n) /\ Abs(n) \in Nat
  BY DEF Abs

\* The longer side of a line is the one the unit steps along.
LEMMA LineLength ==
  ASSUME NEW l, Course(l), SetUp(l)
  PROVE  Length(l) = delta_x
<1>1. delta_x = Abs(x1 - x0) /\ delta_y = Abs(y1 - y0) /\ delta_y <= delta_x
      /\ Abs(x0 - x1) = Abs(x1 - x0) /\ Abs(y0 - y1) = Abs(y1 - y0)
  BY Ranges DEF SetUp, Abs
<1>2. \/ /\ Abs(l.to.x - l.from.x) = delta_x
         /\ Abs(l.to.y - l.from.y) = delta_y
      \/ /\ Abs(l.to.x - l.from.x) = delta_y
         /\ Abs(l.to.y - l.from.y) = delta_x
  BY <1>1 DEF SetUp, EndsOf, U, V
<1>3. delta_x \in Int /\ delta_y \in Int
  BY Ranges
<1>4. QED
  BY ONLY <1>1, <1>2, <1>3 DEF Length, LargerOf

\* Near the line in u and v is near the line in x and y.
LEMMA DrawnIsNear ==
  ASSUME NEW l, Course(l), SetUp(l), NEW n \in Int, n <= x1 + 1, NEW p,
         p = Pixel(U(p), V(p)), NearAhead(U(p), V(p), n)
  PROVE  Near(p, l)
<1> DEFINE u == U(p)
           v == V(p)
<1>1. /\ u \in x0 .. x1 /\ u \in Int
      /\ v \in (y0 .. y1) \cup (y1 .. y0) /\ v \in Int
      /\ delta_x = x1 - x0 /\ steep \in BOOLEAN
  BY Ranges DEF NearAhead, SetUp, Course, BresTypeOK
<1>2. 2 * Abs(Cross(u, v, x0, y0, x1, y1)) <= Length(l)
  BY <1>1, LineLength DEF NearAhead, Cross
\* It changes its sign with the direction of the line and when the axes are
\* exchanged.
<1>3. /\ Cross(u, v, x0, y0, x1, y1) \in Int
      /\ Cross(u, v, x1, y1, x0, y0) = -Cross(u, v, x0, y0, x1, y1)
      /\ Cross(v, u, y0, x0, y1, x1) = -Cross(u, v, x0, y0, x1, y1)
      /\ Cross(v, u, y1, x1, y0, x0) = Cross(u, v, x0, y0, x1, y1)
  <2>1. x0 \in Int /\ x1 \in Int /\ y0 \in Int /\ y1 \in Int
    BY Ranges
  <2> HIDE DEF u, v
  <2>2. QED
    BY ONLY <1>1, <2>1 DEF Cross
<1>4. IF steep THEN p.x = v /\ p.y = u ELSE p.x = u /\ p.y = v
  BY DEF Pixel
<1>5. \/ EndsOf(l.from, l.to)
      \/ EndsOf(l.to, l.from)
  BY DEF SetUp
<1>6. 2 * Abs(Cross(p.x, p.y, l.from.x, l.from.y, l.to.x, l.to.y))
        <= Length(l)
  <2>1. \/ Cross(p.x, p.y, l.from.x, l.from.y, l.to.x, l.to.y)
             = Cross(u, v, x0, y0, x1, y1)
        \/ Cross(p.x, p.y, l.from.x, l.from.y, l.to.x, l.to.y)
             = -Cross(u, v, x0, y0, x1, y1)
    <3> HIDE DEF u, v
    <3>1. CASE steep
      BY <1>3, <1>4, <1>5, <3>1 DEF EndsOf, U, V
    <3>2. CASE ~steep
      BY <1>3, <1>4, <1>5, <3>2 DEF EndsOf, U, V
    <3>3. QED
      BY <3>1, <3>2
  <2>2. QED
    BY <1>2, <1>3, <2>1, AbsOfMinus
<1>7. /\ \E a, b \in {l.from, l.to} : U(a) <= u /\ u <= U(b)
      /\ \E a, b \in {l.from, l.to} : V(a) <= v /\ v <= V(b)
  <2> HIDE DEF u, v
  <2>1. \E a, b \in {l.from, l.to} : U(a) <= u /\ u <= U(b)
    BY <1>1, <1>5, Ranges DEF EndsOf
  <2>2. \E a, b \in {l.from, l.to} : V(a) <= v /\ v <= V(b)
    BY <1>1, <1>5, Ranges DEF EndsOf
  <2>3. QED
    BY <2>1, <2>2
<1>8. /\ \E a, b \in {l.from, l.to} : a.x <= p.x /\ p.x <= b.x
      /\ \E a, b \in {l.from, l.to} : a.y <= p.y /\ p.y <= b.y
  <2> HIDE DEF u, v
  <2>1. CASE steep
    BY <1>4, <1>7, <2>1 DEF U, V
  <2>2. CASE ~steep
    BY <1>4, <1>7, <2>2 DEF U, V
  <2>3. QED
    BY <2>1, <2>2
<1>9. QED
  BY <1>6, <1>8 DEF Near, Cross

\* The invariant gives the properties: pixels on the line,
LEMMA InvPixelsOnLine == ASSUME UnitInv PROVE PixelsOnLine
<1> SUFFICES ASSUME NEW p \in drawn PROVE Near(p, line)
  BY DEF PixelsOnLine
<1>1. SetUp(line) /\ \E n \in Int : n <= x1 + 1 /\ DrawnTo(n)
  <2>1. bres_state \in {"WAITING", "DRAWING"}
    BY DEF UnitInv, Course, BresTypeOK
  <2>2. CASE bres_state = "DRAWING"
    <3>1. x <= x1 + 1 /\ x \in Int
      BY <2>2, Ranges DEF UnitInv, Course, SetUp, OnCourse, Followed
    <3>2. QED
      BY <2>2, <3>1 DEF UnitInv, Course
  <2>3. CASE bres_state = "WAITING"
    <3>1. x1 + 1 <= x1 + 1 /\ x1 + 1 \in Int
      BY Ranges DEF UnitInv
    <3>2. QED
      BY <2>3, <3>1 DEF UnitInv
  <2>4. QED
    BY <2>1, <2>2, <2>3
<1>2. PICK n \in Int : n <= x1 + 1 /\ DrawnTo(n)
  BY <1>1
<1>3. p = Pixel(U(p), V(p)) /\ NearAhead(U(p), V(p), n)
  BY <1>2 DEF DrawnTo
<1>4. QED
  BY <1>1, <1>2, <1>3, DrawnIsNear DEF UnitInv

\* and all of them.
LEMMA InvWholeLine == ASSUME UnitInv PROVE WholeLine
<1> SUFFICES ASSUME bres_waiting, drawn # {}
             PROVE  /\ {line.from, line.to} \subseteq drawn
                    /\ \A p, q \in drawn : Major(p) = Major(q) => p = q
                    /\ \A p \in drawn : p \in {line.from, line.to}
                         \/ \E q \in drawn : Major(q) = Major(p) + 1
  BY DEF WholeLine
<1>1. SetUp(line) /\ DrawnTo(x1 + 1) /\ Pixel(x1, y1) \in drawn
  BY DEF UnitInv, bres_waiting
<1>2. x0 <= x1 /\ x0 \in Int /\ x1 \in Int
  BY <1>1, Ranges DEF SetUp, UnitInv
<1>3. Pixel(x0, y0) \in drawn
  BY <1>1, <1>2 DEF DrawnTo
<1>4. \A a \in Point : Pixel(U(a), V(a)) = a
  BY DEF Pixel, U, V, Point
<1>5. line.from \in Point /\ line.to \in Point
  BY DEF UnitInv, Line
<1>6. {line.from, line.to} = {Pixel(x0, y0), Pixel(x1, y1)}
  BY <1>1, <1>4, <1>5 DEF SetUp, EndsOf
<1>7. \A p : Major(p) = U(p)
  <2>1. /\ Abs(line.to.y - line.from.y) \in Nat
        /\ Abs(line.to.x - line.from.x) \in Nat
    BY Ranges, AbsOfMinus DEF UnitInv
  <2>2. steep = (Abs(line.to.y - line.from.y) > Abs(line.to.x - line.from.x))
    BY <1>1 DEF SetUp, IsSteep
  <2>3. /\ steep => Abs(line.to.y - line.from.y) > Abs(line.to.x - line.from.x)
        /\ ~steep => ~(Abs(line.to.y - line.from.y) > Abs(line.to.x - line.from.x))
    BY ONLY <2>2, Zenon
  <2>4. steep => ~(Abs(line.to.x - line.from.x) >= Abs(line.to.y - line.from.y))
    BY <2>1, <2>3
  <2>5. ~steep => Abs(line.to.x - line.from.x) >= Abs(line.to.y - line.from.y)
    BY <2>1, <2>3
  <2>6. QED
    BY <2>4, <2>5 DEF Major, U
<1>8. \A p, q \in drawn : U(p) = U(q) => p = q
  BY <1>1 DEF DrawnTo
<1>9. \A p \in drawn : p \in {line.from, line.to}
                       \/ \E q \in drawn : U(q) = U(p) + 1
  <2> SUFFICES ASSUME NEW p \in drawn, U(p) # x1
               PROVE  \E q \in drawn : U(q) = U(p) + 1
    BY <1>1, <1>6, <1>8, PixelCoordinates
  <2>1. U(p) \in x0 .. x1
    BY <1>1, <1>2 DEF DrawnTo, NearAhead
  <2>2. U(p) < (x1 + 1) - 1
    BY <1>2, <2>1
  <2>3. \A r \in drawn : U(r) < (x1 + 1) - 1 => \E q \in drawn : U(q) = U(r) + 1
    BY <1>1 DEF DrawnTo
  <2>4. QED
    BY <2>2, <2>3
<1>10. QED
  BY <1>1, <1>3, <1>6, <1>7, <1>8, <1>9

(***************************************************************************)
(* Whatever lines the unit is asked for: every pixel it hands out lies on  *)
(* the line to half a pixel and between its ends, the line is complete     *)
(* with both ends and one pixel a step when the unit waits again, the      *)
(* error term stays a remainder of the longer side, and no register        *)
(* overflows: a coordinate register as wide as the coordinates is enough,  *)
(* for the differences and the error term too.                             *)
(***************************************************************************)
THEOREM LinesAreDrawn == UnitSpec => []LineIsDrawn
<1>1. UnitInit => UnitInv
  BY InitUnitInv
<1>2. UnitInv /\ [Unit]_unitVars => UnitInv'
  BY UnitStep
<1>3. UnitInv => LineIsDrawn
  <2> SUFFICES ASSUME UnitInv PROVE LineIsDrawn
    OBVIOUS
  <2>1. ErrorIsRemainder
    BY DEF UnitInv, Course, OnCourse, Followed, ErrorIsRemainder
  <2>2. QED
    BY <2>1, InvPixelsOnLine, InvWholeLine DEF LineIsDrawn, UnitInv, Course
<1>4. QED
  BY <1>1, <1>2, <1>3, PTL DEF UnitSpec

-----------------------------------------------------------------------------
(***************************************************************************)
(* The closed form of a line, and the unit on its way along it.            *)
(***************************************************************************)

\* What division returns, from quotient and remainder.
LEMMA QuotientOf ==
  ASSUME NEW n \in Nat \ {0}, NEW r \in Nat, NEW s \in 0 .. n - 1,
         NEW a \in Int, a = r * n + s
  PROVE  a \div n = r
<1> DEFINE q == a \div n
           m == a % n
<1>1. q \in Int /\ m \in 0 .. n - 1 /\ a = q * n + m
  OBVIOUS
<1> HIDE DEF q, m
<1>2. q * n \in Int /\ r * n \in Int
  BY <1>1
<1>3. (q - r) * n = q * n - r * n /\ q - r \in Int
  BY <1>1
<1>4. (q - r) * n < n /\ (q - r) * n > -n
  BY <1>1, <1>2, <1>3
<1>5. q - r >= 1 => (q - r) * n >= n
  BY <1>1
<1>6. q - r <= -1 => (q - r) * n <= -n
  BY <1>1
<1>7. q = r
  BY <1>1, <1>3, <1>4, <1>5, <1>6
<1> QED BY <1>7 DEF q

\* Followed far enough, the unit has risen what the closed form says.
LEMMA FollowedIsRounded ==
  ASSUME NEW dx \in Nat, NEW dy \in Nat, dy <= dx,
         NEW j \in Int, NEW r \in Int, NEW e \in Int, Followed(dx, dy, j, r, e)
  PROVE  Rounded(dx, dy, j) = r
<1>1. /\ j \in 0 .. dx /\ r \in 0 .. dy
      /\ e \in 0 .. LargerOf(dx - 1, 0) /\ e = dx \div 2 - j * dy + r * dx
  BY DEF Followed
<1>2. CASE dx = 0
  <2>1. j = 0 /\ r = 0 /\ dy = 0
    BY <1>1, <1>2
  <2>2. LargerOf(0, 1) = 1 /\ 0 * 0 + 1 - 1 - 0 \div 2 = 0 /\ 0 \div 1 = 0
    BY DEF LargerOf
  <2> QED BY <1>2, <2>1, <2>2 DEF Rounded
<1>3. CASE dx # 0
  <2>1. LargerOf(dx, 1) = dx /\ LargerOf(dx - 1, 0) = dx - 1
    BY <1>3 DEF LargerOf
  <2>2. j * dy \in Int /\ r * dx \in Int /\ dx \div 2 \in Int
    BY <1>1
  <2>3. PICK s \in 0 .. dx - 1 : s = dx - 1 - e
    BY <1>1, <2>1
  <2>4. PICK a \in Int : a = j * dy + dx - 1 - dx \div 2
    BY <2>2
  <2>5. a = r * dx + s
    BY <1>1, <2>2, <2>3, <2>4
  <2>6. a \div dx = r
    BY <1>1, <1>3, <2>5, QuotientOf
  <2> QED BY <2>1, <2>4, <2>6 DEF Rounded
<1> QED BY <1>2, <1>3

\* The pixel k steps from the start of the line that is set up.
PixelAt(k) ==
  Pixel(x0 + k, y0 + (IF y0 < y1 THEN 1 ELSE -1) * Rounded(delta_x, delta_y, k))

\* The closed form is the pixels of the line as it is set up, one a step.
LEMMA LinePixelsAre ==
  ASSUME NEW l, Course(l), SetUp(l)
  PROVE  LinePixels(l) = {PixelAt(k) : k \in 0 .. delta_x}
<1>1. /\ steep = IsSteep(l) /\ steep \in BOOLEAN
      /\ x0 <= x1 /\ delta_x = x1 - x0 /\ delta_y = Abs(y1 - y0)
      /\ EndsOf(l.from, l.to) \/ EndsOf(l.to, l.from)
      /\ x0 \in Int /\ x1 \in Int /\ y0 \in Int /\ y1 \in Int
      /\ delta_y <= delta_x
  BY Ranges DEF SetUp, Course, BresTypeOK
<1>2. Abs(y1 - y0) = Abs(y0 - y1)
  BY <1>1 DEF Abs
<1>3. PICK a, b : /\ {a, b} = {l.from, l.to} /\ EndsOf(a, b)
                  /\ a = IF U(l.from) > U(l.to) THEN l.to ELSE l.from
                  /\ b = IF U(l.from) > U(l.to) THEN l.from ELSE l.to
  <2>1. CASE EndsOf(l.from, l.to)
    BY <1>1, <2>1 DEF EndsOf
  <2>2. CASE EndsOf(l.to, l.from) /\ U(l.from) > U(l.to)
    BY <2>2 DEF EndsOf
  <2>3. CASE EndsOf(l.to, l.from) /\ ~(U(l.from) > U(l.to))
    <3>1. x0 = x1 /\ y0 = y1
      BY <1>1, <2>3 DEF EndsOf, Abs
    <3> QED BY <2>3, <3>1 DEF EndsOf
  <2> QED BY <1>1, <2>1, <2>2, <2>3
<1>4. U(a) = x0 /\ V(a) = y0 /\ U(b) = x1 /\ V(b) = y1
  BY <1>3 DEF EndsOf
<1> DEFINE At(k) == [u |-> x0 + k,
                     v |-> y0 + (IF y0 < y1 THEN 1 ELSE -1)
                                * Rounded(x1 - x0, Abs(y1 - y0), k)]
<1>5. LinePixels(l) = {IF steep THEN [x |-> At(k).v, y |-> At(k).u]
                                ELSE [x |-> At(k).u, y |-> At(k).v] : k \in 0 .. x1 - x0}
  <2>1. CASE steep
    <3>1. Abs(l.to.y - l.from.y) > Abs(l.to.x - l.from.x)
      BY <1>1, <2>1 DEF IsSteep
    <3> QED BY ONLY <3>1, <1>3, <1>4, <2>1, SMTT(30) DEF LinePixels, U, V
  <2>2. CASE ~steep
    <3>1. ~(Abs(l.to.y - l.from.y) > Abs(l.to.x - l.from.x))
      BY <1>1, <2>2 DEF IsSteep
    <3> QED BY ONLY <3>1, <1>3, <1>4, <2>2, SMTT(30) DEF LinePixels, U, V
  <2> QED BY <1>1, <2>1, <2>2
<1> QED BY <1>1, <1>5 DEF PixelAt, Pixel

\* The pixels of l that the unit has handed out.
Reached(l) ==
  CASE bres_state = "WAITING" -> LinePixels(l)
    [] bres_state = "DRAWING" -> {PixelAt(k) : k \in 0 .. x - x0 - 1}
    [] OTHER -> {}

\* A clock in which the unit is at work and nobody resets it.
LEMMA CourseStep ==
  ASSUME NEW l, Course(l), ~bres_waiting, NEW load \in BOOLEAN, NEW m,
         BresClock(FALSE, load, m)
  PROVE  Course(l)' /\ vals_rdy' \in BOOLEAN
<1>1. SetupIsSteep \/ SetupRevCoords \/ SetupErrorAndStep \/ Drawing
  BY DEF BresClock, Load, bres_waiting
<1> QED BY <1>1, CourseIsSteep, CourseRevCoords, CourseErrorAndStep, CourseDrawing

\* It reaches one pixel more, or none in the states that set a line up.
LEMMA ReachedGrows ==
  ASSUME NEW l, Course(l), ~bres_waiting, NEW load \in BOOLEAN, NEW m,
         BresClock(FALSE, load, m)
  PROVE  Reached(l)' = Reached(l) \cup
           (IF vals_rdy' THEN {[x |-> o_x_val', y |-> o_y_val']} ELSE {})
<1>1. CASE SetupIsSteep \/ SetupRevCoords
  BY <1>1 DEF SetupIsSteep, SetupRevCoords, Reached
<1>2. CASE SetupErrorAndStep
  <2>1. x' = x0' /\ vals_rdy' = FALSE /\ x0' \in Int
    BY <1>2, CourseErrorAndStep, Ranges DEF SetupErrorAndStep
  <2>2. 0 .. x' - x0' - 1 = {}
    <3>1. PICK c \in Int : c = x0' /\ c = x'
      BY <2>1
    <3>2. 0 .. c - c - 1 = {}
      BY ONLY c \in Int
    <3> QED BY ONLY <3>1, <3>2
  <2>3. Reached(l)' = {}
    BY <1>2, <2>2 DEF Reached, SetupErrorAndStep
  <2> QED BY <1>2, <2>1, <2>3 DEF Reached, SetupErrorAndStep
<1>3. CASE Drawing
  <2>1. /\ SetUp(l) /\ SetUp(l)' /\ OnCourse /\ Course(l)'
        /\ UNCHANGED <<x0, x1, y0, y1, delta_x, delta_y, ystep, steep>>
        /\ [x |-> o_x_val', y |-> o_y_val'] = Pixel(x, y) /\ vals_rdy' = TRUE
        /\ x \in x0 .. x1
        /\ IF x = x1 THEN bres_state' = "WAITING"
                     ELSE bres_state' = "DRAWING" /\ x' = x + 1
    BY <1>3, CourseDrawing
  <2>2. x0 \in Int /\ x1 \in Int /\ y0 \in Int /\ y1 \in Int /\ y \in Int
        /\ x \in Int /\ delta_x = x1 - x0 /\ delta_x \in Nat /\ delta_y \in Nat
        /\ delta_y <= delta_x
    BY <2>1, Ranges DEF SetUp
  <2> DEFINE j == x - x0
  <2>3. PixelAt(j) = Pixel(x, y)
    <3>1. /\ Followed(delta_x, delta_y, j, rise, error)
          /\ rise \in Int /\ j \in Int /\ error \in Int
      BY <2>1, <2>2, Ranges DEF OnCourse, rise
    <3>2. Rounded(delta_x, delta_y, j) = rise
      BY <2>2, <3>1, FollowedIsRounded
    <3>3. x0 + j = x /\ y0 + (IF y0 < y1 THEN 1 ELSE -1) * rise = y
      BY <2>2 DEF rise
    <3> QED BY <3>2, <3>3 DEF PixelAt
  <2>4. \A k : PixelAt(k)' = PixelAt(k)
    BY <2>1 DEF PixelAt, Pixel
  <2>5. bres_state = "DRAWING" /\ j \in Nat
    BY <1>3, <2>1, <2>2 DEF Drawing
  <2>6. Reached(l)' = {PixelAt(k) : k \in 0 .. j}
    <3>1. CASE x = x1
      <4>1. Reached(l)' = LinePixels(l)
        <5>1. bres_state' = "WAITING"
          BY <2>1, <3>1
        <5> QED BY <5>1 DEF Reached, LinePixels
      <4>2. LinePixels(l) = {PixelAt(k) : k \in 0 .. delta_x}
        BY <2>1, LinePixelsAre
      <4> QED BY <3>1, <4>1, <4>2, <2>2
    <3>2. CASE x # x1
      <4>1. bres_state' = "DRAWING" /\ x' - x0' - 1 = j
        BY <2>1, <2>2, <3>2
      <4> HIDE DEF j
      <4> QED BY <2>4, <4>1 DEF Reached
    <3> QED BY <3>1, <3>2
  <2>7. Reached(l) = {PixelAt(k) : k \in 0 .. j - 1}
    BY <2>5 DEF Reached
  <2>8. 0 .. j = (0 .. j - 1) \cup {j}
    BY <2>5
  <2> HIDE DEF j
  <2>9. Reached(l)' = Reached(l) \cup {Pixel(x, y)}
    BY <2>3, <2>6, <2>7, <2>8
  <2> QED BY <2>1, <2>9
<1> QED BY <1>1, <1>2, <1>3 DEF BresClock, Load, bres_waiting

-----------------------------------------------------------------------------
(***************************************************************************)
(* The drawer: queue, unit and state machine on one clock.                 *)
(***************************************************************************)
\* What the queue's RAM holds: lines, or the zeros it powers up with.
Words == Lines \cup {ZeroLine}

\* For a careful client a line is there when it is loaded, and has arrived.
Loadable ==
  careful => /\ draw_state \in {"CLEAR", "LOAD"} => counter # 0
             /\ draw_state = "LOAD" => ram_data = ram[rd_addr]

\* The unit works while the drawer draws, on a line of the round.
UnitWorks ==
  IF draw_state = "DRAW" THEN \E l \in round.lines : Course(l) ELSE bres_waiting

\* The inductive invariant of queue, unit and state machine.
QueueInv ==
  /\ TypeOK
  /\ careful \in BOOLEAN
  /\ round \in [known : BOOLEAN, lines : SUBSET Words]
  /\ Small
  /\ PointersAgree
  /\ Loadable
  /\ UnitWorks

\* What the assumptions say of the sizes, multiplied out.
LEMMA Sizes ==
  /\ ScreenW \in Nat \ {0} /\ ScreenH \in Nat \ {0} /\ RamSize \in Nat
  /\ ScreenW * ScreenH \in Nat \ {0} /\ ScreenW * ScreenH < RamSize
  /\ Depth \in Nat /\ Depth >= 2 /\ Half \in Nat \ {0}
<1>1. ScreenW \in Nat \ {0} /\ ScreenH \in Nat \ {0}
  BY ScreenAssumption
<1>2. ScreenW * ScreenH \in Nat /\ ScreenW * ScreenH >= 1
  BY <1>1
<1> QED BY <1>1, <1>2, ScreenAssumption, CoordsAssumption

\* Every word of the queue is a line that fits the registers of the unit.
LEMMA WordsFit == Words \subseteq FittingLine
<1>1. ZeroLine \in FittingLine
  BY Sizes DEF ZeroLine, FittingLine, Fitting
<1> QED BY <1>1, LinesFit, LinesAssumption DEF Words

\* Nothing is queued, loaded or drawn after configuration.
LEMMA InitQueueInv == Init => QueueInv
<1> SUFFICES ASSUME Init PROVE QueueInv
  OBVIOUS
<1>0. 0 \in 0 .. Half - 1 /\ 0 \in -Half .. Half - 1
  BY Sizes
<1>1. BresTypeOK /\ Small /\ bres_waiting
  BY <1>0 DEF Init, BresInit, BresTypeOK, Small, bres_waiting
<1>2. Fifo!FifoTypeOK /\ PointersAgree
  BY Sizes DEF Init, Fifo!FifoInit, Fifo!FifoTypeOK, Fifo!Addresses, PointersAgree,
               Fifo!Place
<1>3. screen \in [0 .. RamSize - 1 -> {0, 1}] /\ clear_addr \in 0 .. RamSize - 1
  BY Sizes DEF Init
<1> QED BY <1>1, <1>2, <1>3
        DEF Init, QueueInv, TypeOK, Loadable, UnitWorks

\* One clock of the queue, whatever its inputs: even when it is driven past
\* its ends the addresses and the counter lose the same thing.
LEMMA FifoStep ==
  ASSUME Fifo!FifoTypeOK, PointersAgree, NEW i_reset \in BOOLEAN,
         NEW i_write \in BOOLEAN, NEW i_read \in BOOLEAN, NEW l \in Words,
         Fifo!FifoClock(i_reset, i_write, i_read, l)
  PROVE  Fifo!FifoTypeOK' /\ PointersAgree'
<1> DEFINE Addresses == 0 .. Depth - 1
<1>1. /\ wr_addr \in Addresses /\ rd_addr \in Addresses /\ counter \in Addresses
      /\ ram \in [Addresses -> Words] /\ ram_data \in Words
  BY DEF Fifo!FifoTypeOK, Fifo!Addresses, Words
<1>2. ASSUME NEW a \in Addresses
      PROVE  Fifo!Up(a) \in Addresses /\ Fifo!Down(a) \in Addresses
  BY Sizes DEF Fifo!Up, Fifo!Down
<1>3. /\ wr_addr' = IF i_reset THEN 0 ELSE IF i_write THEN Fifo!Up(wr_addr) ELSE wr_addr
      /\ rd_addr' = IF i_reset THEN 0 ELSE IF i_read THEN Fifo!Up(rd_addr) ELSE rd_addr
      /\ counter' = IF i_reset THEN 0 ELSE Fifo!Count(i_write, i_read)
      /\ ram' = IF i_write THEN [ram EXCEPT ![wr_addr] = l] ELSE ram
      /\ ram_data' = ram[rd_addr]
  BY DEF Fifo!FifoClock, Fifo!Output
<1>4. Fifo!Count(i_write, i_read)
        = IF i_read /\ ~i_write THEN Fifo!Down(counter)
          ELSE IF i_write /\ ~i_read THEN Fifo!Up(counter) ELSE counter
  BY DEF Fifo!Count
<1>5. Fifo!FifoTypeOK'
  <2>1. 0 \in Addresses
    BY Sizes
  <2>2. wr_addr' \in Addresses /\ rd_addr' \in Addresses /\ counter' \in Addresses
    BY <1>1, <1>2, <1>3, <1>4, <2>1
  <2>3. ram' \in [Addresses -> Words] /\ ram_data' \in Words
    BY <1>1, <1>3
  <2> QED BY <2>2, <2>3 DEF Fifo!FifoTypeOK, Fifo!Addresses, Words
<1>6. PointersAgree'
  <2> USE DEF PointersAgree, Fifo!Place, Fifo!Up, Fifo!Down
  <2>1. CASE i_reset
    BY <1>3, <2>1, Sizes
  <2>2. CASE ~i_reset /\ i_read /\ ~i_write
    BY <1>1, <1>3, <1>4, <2>2, Sizes
  <2>3. CASE ~i_reset /\ i_write /\ ~i_read
    BY <1>1, <1>3, <1>4, <2>3, Sizes
  <2>4. CASE ~i_reset /\ i_write /\ i_read
    BY <1>1, <1>3, <1>4, <2>4, Sizes
  <2>5. CASE ~i_reset /\ ~i_write /\ ~i_read
    BY <1>1, <1>3, <1>4, <2>5, Sizes
  <2> QED BY <2>1, <2>2, <2>3, <2>4, <2>5
<1> QED BY <1>5, <1>6

\* The line unit on one clock of the drawer.
LEMMA BresEdge ==
  ASSUME QueueInv, NEW i_reset \in BOOLEAN, BresClock(i_reset, load_vals, ram_data)
  PROVE  /\ BresTypeOK' /\ Small'
         /\ i_reset => bres_waiting'
         /\ ~i_reset /\ draw_state \in {"WAITING", "CLEAR"} => bres_waiting'
         /\ ~i_reset /\ draw_state = "LOAD" =>
              /\ \A l : l = ram_data => Course(l)'
              /\ vals_rdy' = FALSE /\ bres_state' = "SETUP_IS_STEEP"
         /\ ~i_reset /\ draw_state = "DRAW" /\ bres_waiting =>
              bres_waiting' /\ vals_rdy' = FALSE
         /\ ~i_reset /\ draw_state = "DRAW" /\ ~bres_waiting =>
              /\ \E l \in round.lines : Course(l)
              /\ \A l \in round.lines : Course(l) => Course(l)'
<1>0. BresTypeOK /\ Small /\ UnitWorks /\ TypeOK
  BY DEF QueueInv, TypeOK
<1>1. CASE i_reset
  <2>1. BresReset
    BY <1>1 DEF BresClock
  <2>2. 0 \in 0 .. Half - 1 /\ 0 \in -Half .. Half - 1
    BY Sizes
  <2>3. BresTypeOK' /\ Small' /\ bres_waiting'
    BY <1>0, <2>1, <2>2 DEF BresReset, BresTypeOK, Small, bres_waiting
  <2> QED BY <1>1, <2>3
<1>2. CASE ~i_reset /\ draw_state # "LOAD" /\ bres_waiting
  <2>1. Load(FALSE, ram_data)
    BY <1>2 DEF BresClock, load_vals, bres_waiting, SetupIsSteep, SetupRevCoords,
                SetupErrorAndStep, Drawing
  <2>2. BresTypeOK' /\ Small' /\ bres_waiting' /\ vals_rdy' = FALSE
    BY <1>0, <1>2, <2>1 DEF Load, BresTypeOK, Small, bres_waiting
  <2> QED BY <1>2, <2>2
<1>3. CASE ~i_reset /\ draw_state = "LOAD"
  <2>1. bres_waiting /\ load_vals = TRUE
    BY <1>0, <1>3 DEF UnitWorks, load_vals
  <2>2. Load(TRUE, ram_data)
    BY <1>3, <2>1 DEF BresClock, bres_waiting, SetupIsSteep, SetupRevCoords,
                      SetupErrorAndStep, Drawing
  <2>3. PICK m \in FittingLine : m = ram_data
    BY <1>0, WordsFit DEF TypeOK, Fifo!FifoTypeOK, Words
  <2>4. Course(m)' /\ vals_rdy' = FALSE
    BY <1>0, <2>2, <2>3, CourseLoad
  <2>5. bres_state' = "SETUP_IS_STEEP" /\ BresTypeOK' /\ Small'
    BY <2>2, <2>4 DEF Load, Course
  <2> QED BY <1>3, <2>3, <2>4, <2>5
<1>4. CASE ~i_reset /\ draw_state # "LOAD" /\ ~bres_waiting
  <2>1. draw_state = "DRAW" /\ load_vals = FALSE
        /\ \E l \in round.lines : Course(l)
    BY <1>0, <1>4 DEF UnitWorks, load_vals
  <2>2. ASSUME NEW l, Course(l) PROVE Course(l)'
    BY <1>4, <2>1, <2>2, CourseStep
  <2>3. BresTypeOK' /\ Small'
    BY <2>1, <2>2 DEF Course
  <2> QED BY <1>4, <2>1, <2>2, <2>3
<1> QED BY <1>1, <1>2, <1>3, <1>4

\* One rising edge, with its inputs.
Edge(i_reset, i_load_fifo, i_clear_buffer, l) ==
  /\ Client(i_reset, i_load_fifo, i_clear_buffer)
  /\ DrawClock(i_reset, i_load_fifo, i_clear_buffer, l)
  /\ UNCHANGED careful
  /\ round' = IF i_reset THEN [known |-> FALSE, lines |-> {}]
              ELSE CASE draw_state = "CLEAR" -> [known |-> TRUE, lines |-> {}]
                     [] load_vals -> [round EXCEPT !.lines = @ \cup {ram_data}]
                     [] OTHER -> round

\* A step of the drawer is a rising edge with some inputs.
LEMMA ClockIsEdge ==
  ASSUME careful \in BOOLEAN, Clock
  PROVE  \E i_reset, i_load_fifo, i_clear_buffer \in BOOLEAN, l \in Words :
           Edge(i_reset, i_load_fifo, i_clear_buffer, l)
<1>1. PICK i_reset \in BOOLEAN, i_load_fifo \in BOOLEAN, i_clear_buffer \in BOOLEAN :
        \E l \in IF i_load_fifo THEN Asked[careful] ELSE {ZeroLine} :
          Edge(i_reset, i_load_fifo, i_clear_buffer, l)
  BY DEF Clock, Edge
<1>2. Asked[careful] \subseteq Lines
  BY ScreenAssumption
<1>3. PICK l \in Words : Edge(i_reset, i_load_fifo, i_clear_buffer, l)
  BY <1>1, <1>2 DEF Words
<1> QED BY <1>3

\* Where the state machine goes, and what the round becomes.
LEMMA StateEdge ==
  ASSUME QueueInv, NEW i_reset \in BOOLEAN, NEW i_load_fifo \in BOOLEAN,
         NEW i_clear_buffer \in BOOLEAN, NEW l \in Words,
         Edge(i_reset, i_load_fifo, i_clear_buffer, l)
  PROVE  \/ i_reset /\ draw_state' = "WAITING" /\ round' = [known |-> FALSE, lines |-> {}]
         \/ /\ ~i_reset /\ draw_state = "WAITING" /\ round' = round
            /\ \/ draw_state' = "WAITING"
               \/ i_clear_buffer /\ draw_state' = "CLEAR"
         \/ /\ ~i_reset /\ draw_state = "CLEAR"
            /\ round' = [known |-> TRUE, lines |-> {}]
            /\ draw_state' = IF Cleared THEN "LOAD" ELSE "CLEAR"
         \/ /\ ~i_reset /\ draw_state = "LOAD" /\ draw_state' = "DRAW"
            /\ round' = [round EXCEPT !.lines = @ \cup {ram_data}]
         \/ /\ ~i_reset /\ draw_state = "DRAW" /\ bres_waiting /\ round' = round
            /\ \/ draw_state' = "WAITING"
               \/ draw_state' = "LOAD" /\ ~Fifo!o_empty
         \/ /\ ~i_reset /\ draw_state = "DRAW" /\ ~bres_waiting /\ round' = round
            /\ draw_state' = "DRAW"
<1>1. draw_state \in {"WAITING", "CLEAR", "LOAD", "DRAW"}
  BY DEF QueueInv, TypeOK
<1>2. CASE i_reset
  BY <1>2 DEF Edge, DrawClock
<1>3. CASE ~i_reset /\ draw_state = "WAITING"
  BY <1>3 DEF Edge, DrawClock, NextState, load_vals
<1>4. CASE ~i_reset /\ draw_state = "CLEAR"
  BY <1>4 DEF Edge, DrawClock, NextState, load_vals
<1>5. CASE ~i_reset /\ draw_state = "LOAD"
  BY <1>5 DEF Edge, DrawClock, NextState, load_vals
<1>6. CASE ~i_reset /\ draw_state = "DRAW"
  BY <1>6 DEF Edge, DrawClock, NextState, load_vals, AfterLine
<1> QED BY <1>1, <1>2, <1>3, <1>4, <1>5, <1>6

\* The queue's registers fit, whatever is done to it; and the line at the head
\* is there and has arrived when it is loaded next.
LEMMA QueueEdge ==
  ASSUME QueueInv, NEW i_reset \in BOOLEAN, NEW i_load_fifo \in BOOLEAN,
         NEW i_clear_buffer \in BOOLEAN, NEW l \in Words,
         Edge(i_reset, i_load_fifo, i_clear_buffer, l)
  PROVE  Fifo!FifoTypeOK' /\ PointersAgree' /\ Loadable'
<1>1. /\ Fifo!FifoClock(i_reset, i_load_fifo, load_vals, l)
      /\ Client(i_reset, i_load_fifo, i_clear_buffer) /\ careful' = careful
  BY DEF Edge, DrawClock
<1>2. load_vals \in BOOLEAN
  BY DEF load_vals
<1>3. Fifo!FifoTypeOK /\ PointersAgree /\ Loadable
  BY DEF QueueInv, TypeOK
<1>4. Fifo!FifoTypeOK' /\ PointersAgree'
  BY <1>1, <1>2, <1>3, FifoStep
<1>5. ASSUME careful', draw_state' \in {"CLEAR", "LOAD"}
      PROVE  counter' # 0 /\ (draw_state' = "LOAD" => ram_data' = ram'[rd_addr'])
  <2>1. careful /\ ~i_reset /\ (i_load_fifo => ~Fifo!o_full)
        /\ (i_clear_buffer => ~Fifo!o_empty)
    BY <1>1, <1>5 DEF Client
  <2>2. counter # 0 /\ draw_state # "LOAD"
    BY <1>3, <1>5, <2>1, StateEdge DEF Loadable, Fifo!o_empty
  <2>3. load_vals = FALSE
    BY <2>2 DEF load_vals
  <2>4. /\ counter \in 0 .. Depth - 1 /\ rd_addr \in 0 .. Depth - 1
        /\ wr_addr \in 0 .. Depth - 1 /\ DOMAIN ram = 0 .. Depth - 1
    BY <1>3 DEF Fifo!FifoTypeOK, Fifo!Addresses
  <2>5. counter' # 0
    BY <1>1, <2>1, <2>2, <2>3, <2>4, Sizes
       DEF Fifo!FifoClock, Fifo!Count, Fifo!Up, Fifo!o_full
  <2>6. wr_addr # rd_addr
    BY <1>3, <2>2, <2>4, Sizes DEF PointersAgree, Fifo!Place
  <2>7. ram_data' = ram'[rd_addr']
    BY <1>1, <2>1, <2>3, <2>6 DEF Fifo!FifoClock, Fifo!Output
  <2> QED BY <2>5, <2>7
<1>6. Loadable'
  BY <1>5 DEF Loadable
<1> QED BY <1>4, <1>6

\* Both writes of the buffer are within it.
LEMMA BufferEdge ==
  ASSUME QueueInv, NEW i_reset \in BOOLEAN, NEW i_load_fifo \in BOOLEAN,
         NEW i_clear_buffer \in BOOLEAN, NEW l \in Words,
         Edge(i_reset, i_load_fifo, i_clear_buffer, l)
  PROVE  clear_addr' \in 0 .. RamSize - 1 /\ screen' \in [0 .. RamSize - 1 -> {0, 1}]
<1>1. /\ clear_addr \in 0 .. RamSize - 1 /\ screen \in [0 .. RamSize - 1 -> {0, 1}]
      /\ ScreenBuffer /\ ClearCounter(i_reset)
  BY DEF QueueInv, TypeOK, Edge, DrawClock
<1>2. clear_addr' \in 0 .. RamSize - 1
  BY <1>1, Sizes DEF ClearCounter
<1>3. screen' \in [0 .. RamSize - 1 -> {0, 1}]
  BY <1>1 DEF ScreenBuffer
<1> QED BY <1>2, <1>3

\* The invariant of queue and state machine is inductive.
LEMMA NextQueueInv == QueueInv /\ [Clock]_drawVars => QueueInv'
<1>1. ASSUME QueueInv, Clock PROVE QueueInv'
  <2>1. PICK i_reset \in BOOLEAN, i_load_fifo \in BOOLEAN, i_clear_buffer \in BOOLEAN,
             l \in Words : Edge(i_reset, i_load_fifo, i_clear_buffer, l)
    BY <1>1, ClockIsEdge DEF QueueInv
  <2>2. BresClock(i_reset, load_vals, ram_data) /\ careful' = careful
    BY <2>1 DEF Edge, DrawClock
  <2>3. /\ careful \in BOOLEAN /\ UnitWorks
        /\ round \in [known : BOOLEAN, lines : SUBSET Words] /\ ram_data \in Words
    BY <1>1 DEF QueueInv, TypeOK, Fifo!FifoTypeOK, Words
  <2>4. BresTypeOK' /\ Small'
    BY <1>1, <2>2, BresEdge
  <2>5. Fifo!FifoTypeOK' /\ PointersAgree' /\ Loadable'
    BY <1>1, <2>1, QueueEdge
  <2>6. clear_addr' \in 0 .. RamSize - 1 /\ screen' \in [0 .. RamSize - 1 -> {0, 1}]
    BY <1>1, <2>1, BufferEdge
  <2>7. /\ draw_state' \in {"WAITING", "CLEAR", "LOAD", "DRAW"}
        /\ round' \in [known : BOOLEAN, lines : SUBSET Words]
        /\ UnitWorks'
    <3>1. CASE draw_state = "LOAD" /\ ~i_reset
      <4>1. draw_state' = "DRAW" /\ round' = [round EXCEPT !.lines = @ \cup {ram_data}]
        BY <1>1, <2>1, <3>1, StateEdge
      <4>2. PICK m : m = ram_data
        OBVIOUS
      <4>3. Course(m)'
        BY <1>1, <2>2, <3>1, <4>2, BresEdge
      <4>4. m \in round'.lines /\ round' \in [known : BOOLEAN, lines : SUBSET Words]
        BY <2>3, <4>1, <4>2
      <4> QED BY <4>1, <4>3, <4>4 DEF UnitWorks
    <3>2. CASE draw_state = "DRAW" /\ ~i_reset /\ ~bres_waiting
      <4>1. draw_state' = "DRAW" /\ round' = round
        BY <1>1, <2>1, <3>2, StateEdge
      <4>2. \E m \in round.lines : Course(m)'
        BY <1>1, <2>2, <3>2, BresEdge
      <4> QED BY <2>3, <4>1, <4>2 DEF UnitWorks
    <3>3. CASE (draw_state # "LOAD" /\ (draw_state = "DRAW" => bres_waiting)) \/ i_reset
      <4>1. bres_waiting'
        BY <1>1, <2>2, <3>3, BresEdge DEF QueueInv, TypeOK
      <4>2. draw_state' \in {"WAITING", "CLEAR", "LOAD"}
        BY <1>1, <2>1, <3>3, StateEdge
      <4>3. round' \in [known : BOOLEAN, lines : SUBSET Words]
        <5>1. round' \in {round, [known |-> FALSE, lines |-> {}],
                          [known |-> TRUE, lines |-> {}]}
          BY <1>1, <2>1, <3>3, StateEdge
        <5>2. {[known |-> FALSE, lines |-> {}], [known |-> TRUE, lines |-> {}]}
                \subseteq [known : BOOLEAN, lines : SUBSET Words]
          OBVIOUS
        <5> QED BY ONLY <2>3, <5>1, <5>2
      <4> QED BY <4>1, <4>2, <4>3 DEF UnitWorks
    <3> QED BY <3>1, <3>2, <3>3
  <2> QED BY <2>2, <2>3, <2>4, <2>5, <2>6, <2>7 DEF QueueInv, TypeOK
<1>2. ASSUME QueueInv, UNCHANGED drawVars PROVE QueueInv'
  <2>1. UNCHANGED <<draw_state, clear_addr, screen, wr_addr, rd_addr, counter, ram,
                    ram_data, careful, round>>
        /\ UNCHANGED <<bres_state, x, x0, x1, y, y0, y1, delta_x, delta_y, error,
                       ystep, steep, vals_rdy, o_x_val, o_y_val>>
    BY <1>2 DEF drawVars, fifoRegs, bresVars
  <2>2. \A m : Course(m) => Course(m)'
    BY <1>2, <2>1, CourseStays DEF QueueInv, TypeOK, BresTypeOK
  <2>3. UnitWorks'
    BY <1>2, <2>1, <2>2 DEF QueueInv, UnitWorks, bres_waiting
  <2>4. TypeOK'
    BY <1>2, <2>1 DEF QueueInv, TypeOK, Fifo!FifoTypeOK, BresTypeOK
  <2> QED BY <1>2, <2>1, <2>3, <2>4
          DEF QueueInv, Small, PointersAgree, Fifo!Place, Loadable
<1> QED BY <1>1, <1>2

(***************************************************************************)
(* Whatever the client does, the registers of the drawer keep their ranges *)
(* and the pointers of the queue agree, even when it is driven past its    *)
(* ends; and for a careful client the unit loads the oldest queued line,   *)
(* never a stale word.                                                     *)
(***************************************************************************)
THEOREM QueueAlwaysDrawn == Spec => []QueueIsDrawn
<1>1. QueueInv => QueueIsDrawn
  <2> SUFFICES ASSUME QueueInv PROVE QueueIsDrawn
    OBVIOUS
  <2>1. /\ counter \in 0 .. Depth - 1 /\ rd_addr \in 0 .. Depth - 1
        /\ TypeOK /\ PointersAgree /\ Loadable
    BY DEF QueueInv, TypeOK, Fifo!FifoTypeOK, Fifo!Addresses
  <2>2. counter # 0 => Fifo!Contents[1] = ram[rd_addr]
    <3>1. counter # 0 => 1 \in 1 .. counter
      BY <2>1
    <3>2. Fifo!Place(rd_addr, 1 - 1) = rd_addr
      BY <2>1, Sizes DEF Fifo!Place
    <3> QED BY <3>1, <3>2 DEF Fifo!Contents
  <2>3. LoadsOldest
    BY <2>1, <2>2 DEF LoadsOldest, Loadable, load_vals, Fifo!o_empty
  <2> QED BY <2>1, <2>3 DEF QueueIsDrawn
<1> QED BY <1>1, InitQueueInv, NextQueueInv, PTL DEF Spec

-----------------------------------------------------------------------------
(***************************************************************************)
(* The picture.                                                            *)
(***************************************************************************)
\* The cells of the buffer that are shown.
Screen == 0 .. ScreenW * ScreenH - 1

\* What of the screen is set.
Lit == {a \in Screen : screen[a] = 1}

\* The picture of a set of lines.
Cells(ls) == {Address(p) : p \in UNION {LinePixels(l) : l \in ls}}

\* The pixel the unit holds out, not yet in the buffer.
Pending == IF vals_rdy THEN {ScreenW * o_y_val + o_x_val} ELSE {}

\* Lines between points of the screen, as a client of the drawer asks for.
OnScreen(p) == p.x \in 0 .. ScreenW - 1 /\ p.y \in 0 .. ScreenH - 1

LinesOnScreen == \A l \in Lines : OnScreen(l.from) /\ OnScreen(l.to)

\* The line that is being drawn, and what of the picture there is so far.
PartlyDrawn ==
  \E l \in round.lines, others \in SUBSET round.lines :
    /\ round.lines = others \cup {l}
    /\ Course(l)
    /\ Pending \subseteq Screen
    /\ Lit \cup Pending = Cells(others) \cup {Address(p) : p \in Reached(l)}

(***************************************************************************)
(* The picture, by the state of the drawer: dark as far as it is cleared;  *)
(* complete for the lines of the round between two of them; and while a    *)
(* line is drawn, the others and what the unit has handed out of this one. *)
(***************************************************************************)
PictureInv ==
  /\ draw_state = "CLEAR" =>
       clear_addr <= ScreenW * ScreenH /\ \A a \in 0 .. clear_addr - 1 : screen[a] = 0
  /\ draw_state = "LOAD" \/ (draw_state = "WAITING" /\ round.known) =>
       Lit = Cells(round.lines)
  /\ draw_state = "DRAW" => PartlyDrawn

\* Row by row: a pixel of the screen has a cell of the screen.
LEMMA AddressOnScreen == ASSUME NEW p, OnScreen(p) PROVE Address(p) \in Screen
<1>1. /\ ScreenW \in Nat /\ ScreenH \in Nat /\ p.x \in Int /\ p.y \in Int
      /\ 0 <= p.x /\ p.x <= ScreenW - 1 /\ 0 <= p.y /\ p.y <= ScreenH - 1
  BY Sizes DEF OnScreen
<1>2. ScreenW * p.y \in Nat /\ ScreenW * p.y <= ScreenW * (ScreenH - 1)
  BY <1>1
<1>3. ScreenW * (ScreenH - 1) = ScreenW * ScreenH - ScreenW
      /\ ScreenW * ScreenH \in Nat
  BY <1>1
<1> QED BY <1>1, <1>2, <1>3 DEF Address, Screen

\* A pixel handed out lies between the ends of its line.
LEMMA DrawsOnScreen ==
  ASSUME NEW l, Course(l), Drawing, OnScreen(l.from), OnScreen(l.to)
  PROVE  OnScreen([x |-> o_x_val', y |-> o_y_val'])
<1>1. /\ SetUp(l) /\ OnCourse /\ [x |-> o_x_val', y |-> o_y_val'] = Pixel(x, y)
      /\ x \in x0 .. x1 /\ y \in (y0 .. y1) \cup (y1 .. y0)
  BY CourseDrawing, OnTheLine
<1>2. steep \in BOOLEAN /\ x0 \in Int /\ x1 \in Int /\ y0 \in Int /\ y1 \in Int
  BY Ranges DEF Course, BresTypeOK
<1>3. /\ ScreenW \in Nat /\ ScreenH \in Nat
      /\ l.from.x \in 0 .. ScreenW - 1 /\ l.from.y \in 0 .. ScreenH - 1
      /\ l.to.x \in 0 .. ScreenW - 1 /\ l.to.y \in 0 .. ScreenH - 1
  BY Sizes DEF OnScreen
<1>4. CASE steep
  <2>1. /\ x0 \in 0 .. ScreenH - 1 /\ x1 \in 0 .. ScreenH - 1
        /\ y0 \in 0 .. ScreenW - 1 /\ y1 \in 0 .. ScreenW - 1
    BY <1>1, <1>3, <1>4 DEF SetUp, EndsOf, U, V
  <2>2. x \in 0 .. ScreenH - 1 /\ y \in 0 .. ScreenW - 1
    BY ONLY <1>1, <1>2, <1>3, <2>1
  <2> QED BY <1>1, <1>4, <2>2 DEF Pixel, OnScreen
<1>5. CASE ~steep
  <2>1. /\ x0 \in 0 .. ScreenW - 1 /\ x1 \in 0 .. ScreenW - 1
        /\ y0 \in 0 .. ScreenH - 1 /\ y1 \in 0 .. ScreenH - 1
    BY <1>1, <1>3, <1>5 DEF SetUp, EndsOf, U, V
  <2>2. x \in 0 .. ScreenW - 1 /\ y \in 0 .. ScreenH - 1
    BY ONLY <1>1, <1>2, <1>3, <2>1
  <2> QED BY <1>1, <1>5, <2>2 DEF Pixel, OnScreen
<1> QED BY <1>2, <1>4, <1>5

\* The line of zeros that the RAM powers up with is on the screen too.
LEMMA WordsOnScreen ==
  ASSUME LinesOnScreen, NEW l \in Words
  PROVE  OnScreen(l.from) /\ OnScreen(l.to)
<1>1. CASE l = ZeroLine
  BY <1>1, Sizes DEF ZeroLine, OnScreen
<1>2. CASE l \in Lines
  BY <1>2 DEF LinesOnScreen
<1> QED BY <1>1, <1>2 DEF Words

\* While lines are drawn the pixel held out goes into the buffer, whether the
\* unit still draws or waits already.
LEMMA PendingIsWritten ==
  ASSUME TypeOK, draw_state = "DRAW", Pending \subseteq Screen, ScreenBuffer
  PROVE  Lit' = Lit \cup Pending
<1>1. screen \in [0 .. RamSize - 1 -> {0, 1}] /\ Screen \subseteq 0 .. RamSize - 1
  BY Sizes DEF TypeOK, Screen
<1>2. CASE vals_rdy
  <2>1. PICK c : c = ScreenW * o_y_val + o_x_val
    OBVIOUS
  <2>2. Pending = {c} /\ c \in Screen
    BY <1>2, <2>1 DEF Pending
  <2>3. c % RamSize = c
    BY <2>2, Sizes DEF Screen
  <2>4. screen' = [screen EXCEPT ![c] = 1]
    BY <1>2, <2>1, <2>3 DEF ScreenBuffer, WritePixel
  <2>5. \A a \in Screen : screen'[a] = IF a = c THEN 1 ELSE screen[a]
    BY <1>1, <2>2, <2>4
  <2> QED BY <2>2, <2>5 DEF Lit
<1>3. CASE ~vals_rdy
  <2>1. screen' = screen
    BY <1>3 DEF ScreenBuffer, WritePixel
  <2> QED BY <1>3, <2>1 DEF Lit, Pending
<1> QED BY <1>2, <1>3

\* The picture of two sets of lines, and of one line.
LEMMA CellsOfUnion ==
  \A a, b : Cells(a \cup b) = Cells(a) \cup Cells(b)
  BY DEF Cells

LEMMA CellsOfLine ==
  \A l : Cells({l}) = {Address(p) : p \in LinePixels(l)}
  BY DEF Cells

\* One more pixel of the line, or another clock of setting it up.
LEMMA PictureGrows ==
  ASSUME QueueInv, LinesOnScreen, PartlyDrawn, draw_state = "DRAW", ~bres_waiting,
         ScreenBuffer, BresClock(FALSE, FALSE, ram_data), round' = round
  PROVE  PartlyDrawn'
<1>1. PICK l \in round.lines, others \in SUBSET round.lines :
        /\ round.lines = others \cup {l}
        /\ Course(l)
        /\ Pending \subseteq Screen
        /\ Lit \cup Pending = Cells(others) \cup {Address(p) : p \in Reached(l)}
  BY DEF PartlyDrawn
<1>2. l \in Words /\ TypeOK
  BY DEF QueueInv
<1>3. Lit' = Lit \cup Pending
  BY <1>1, <1>2, PendingIsWritten
<1>4. Course(l)' /\ vals_rdy' \in BOOLEAN
  BY <1>1, CourseStep
<1>5. PICK q : q = [x |-> o_x_val', y |-> o_y_val']
  OBVIOUS
<1>6. Reached(l)' = Reached(l) \cup (IF vals_rdy' THEN {q} ELSE {})
  BY <1>1, <1>5, ReachedGrows
<1>7. Pending' = (IF vals_rdy' THEN {Address(q)} ELSE {})
  BY <1>5 DEF Pending, Address
<1>8. vals_rdy' => OnScreen(q)
  <2>1. vals_rdy' => Drawing
    BY DEF BresClock, Load, bres_waiting, SetupIsSteep, SetupRevCoords,
           SetupErrorAndStep
  <2>2. OnScreen(l.from) /\ OnScreen(l.to)
    BY <1>2, WordsOnScreen
  <2>3. Drawing => OnScreen([x |-> o_x_val', y |-> o_y_val'])
    BY <1>1, <2>2, DrawsOnScreen
  <2> QED BY <1>5, <2>1, <2>3
<1>9. Pending' \subseteq Screen
  BY <1>7, <1>8, AddressOnScreen
<1>10. (Lit \cup Pending)' = Cells(others) \cup {Address(p) : p \in Reached(l)'}
  <2>1. {Address(p) : p \in Reached(l)'}
          = {Address(p) : p \in Reached(l)} \cup (IF vals_rdy' THEN {Address(q)} ELSE {})
    BY <1>6
  <2> QED BY <1>1, <1>3, <1>7, <2>1
<1> QED BY <1>1, <1>4, <1>9, <1>10 DEF PartlyDrawn, Cells, Screen

\* The last pixel, written while the unit waits already.
LEMMA PictureFinished ==
  ASSUME TypeOK, PartlyDrawn, draw_state = "DRAW", bres_waiting, ScreenBuffer,
         round' = round
  PROVE  Lit' = Cells(round.lines)
<1>1. PICK l \in round.lines, others \in SUBSET round.lines :
        /\ round.lines = others \cup {l}
        /\ Pending \subseteq Screen
        /\ Lit \cup Pending = Cells(others) \cup {Address(p) : p \in Reached(l)}
  BY DEF PartlyDrawn
<1>2. Lit' = Lit \cup Pending
  BY <1>1, PendingIsWritten
<1>3. Reached(l) = LinePixels(l)
  BY DEF Reached, bres_waiting
<1>4. Cells({l}) = {Address(p) : p \in Reached(l)}
  BY <1>3, CellsOfLine
<1>5. Cells(others \cup {l}) = Cells(others) \cup Cells({l})
  BY CellsOfUnion, Zenon
<1> QED BY <1>1, <1>2, <1>4, <1>5

\* A line is taken: nothing of it is drawn yet.
LEMMA PictureBegun ==
  ASSUME QueueInv, Lit = Cells(round.lines), draw_state = "LOAD", ScreenBuffer,
         BresClock(FALSE, load_vals, ram_data),
         round' = [round EXCEPT !.lines = @ \cup {ram_data}]
  PROVE  PartlyDrawn'
<1>1. PICK l : l = ram_data
  OBVIOUS
<1>2. Course(l)' /\ vals_rdy' = FALSE /\ bres_state' = "SETUP_IS_STEEP"
  BY <1>1, BresEdge
<1>3. round \in [known : BOOLEAN, lines : SUBSET Words]
  BY DEF QueueInv
<1>4. PICK others : others = round.lines
  OBVIOUS
<1>5. round'.lines = others \cup {l}
  BY <1>1, <1>3, <1>4
<1>6. screen' = screen /\ Lit' = Cells(others)
  BY <1>4 DEF ScreenBuffer, WritePixel, Lit
<1>7. Pending' = {} /\ Reached(l)' = {}
  BY <1>2 DEF Pending, Reached
<1>8. (Lit \cup Pending)' = Cells(others) \cup {Address(p) : p \in Reached(l)'}
  BY <1>6, <1>7
<1> QED BY <1>2, <1>5, <1>7, <1>8 DEF PartlyDrawn, Cells, Screen

\* Clearing goes up the screen and is over when all of it is dark.
LEMMA PictureCleared ==
  ASSUME TypeOK, draw_state = "CLEAR", ScreenBuffer, ClearCounter(FALSE),
         clear_addr <= ScreenW * ScreenH, \A a \in 0 .. clear_addr - 1 : screen[a] = 0
  PROVE  /\ Cleared => Lit' = {}
         /\ ~Cleared => /\ clear_addr' <= ScreenW * ScreenH
                        /\ \A a \in 0 .. clear_addr' - 1 : screen'[a] = 0
<1>1. /\ clear_addr \in 0 .. RamSize - 1 /\ RamSize \in Nat
      /\ ScreenW * ScreenH \in Nat /\ ScreenW * ScreenH < RamSize
      /\ DOMAIN screen = 0 .. RamSize - 1
  BY Sizes DEF TypeOK
<1>2. screen' = [screen EXCEPT ![clear_addr] = 0]
  BY DEF ScreenBuffer, WritePixel
<1>3. \A a \in 0 .. clear_addr : screen'[a] = 0
  BY <1>1, <1>2
<1>4. CASE Cleared
  BY <1>1, <1>3, <1>4 DEF Cleared, Lit, Screen
<1>5. CASE ~Cleared
  <2>1. clear_addr + 1 <= ScreenW * ScreenH
    BY <1>1, <1>5 DEF Cleared
  <2>2. clear_addr' = clear_addr + 1
    BY <1>1, <2>1 DEF ClearCounter
  <2> QED BY <1>1, <1>3, <1>5, <2>1, <2>2
<1> QED BY <1>4, <1>5

\* The invariant of the picture is inductive, with that of the queue.
LEMMA NextPictureInv ==
  ASSUME LinesOnScreen, QueueInv, PictureInv, Clock
  PROVE  PictureInv'
<1>1. PICK i_reset \in BOOLEAN, i_load_fifo \in BOOLEAN, i_clear_buffer \in BOOLEAN,
           l \in Words : Edge(i_reset, i_load_fifo, i_clear_buffer, l)
  BY ClockIsEdge DEF QueueInv
<1>2. /\ ScreenBuffer /\ ClearCounter(i_reset) /\ TypeOK
      /\ BresClock(i_reset, load_vals, ram_data)
  BY <1>1 DEF Edge, DrawClock, QueueInv
<1>3. CASE i_reset
  <2>1. draw_state' = "WAITING" /\ round' = [known |-> FALSE, lines |-> {}]
    BY <1>1, <1>3, StateEdge
  <2> QED BY <2>1 DEF PictureInv
<1>4. CASE ~i_reset /\ draw_state = "WAITING"
  <2>1. /\ draw_state' \in {"WAITING", "CLEAR"} /\ round' = round
        /\ clear_addr' = 0 /\ screen' = screen
    BY <1>1, <1>2, <1>4, StateEdge DEF ClearCounter, ScreenBuffer, WritePixel
  <2>2. 0 <= ScreenW * ScreenH /\ 0 .. 0 - 1 = {}
    BY Sizes
  <2> QED BY <1>4, <2>1, <2>2 DEF PictureInv, Lit, Cells
<1>5. CASE ~i_reset /\ draw_state = "CLEAR"
  <2>1. /\ round' = [known |-> TRUE, lines |-> {}]
        /\ draw_state' = IF Cleared THEN "LOAD" ELSE "CLEAR"
    BY <1>1, <1>5, StateEdge
  <2>2. /\ Cleared => Lit' = {}
        /\ ~Cleared => /\ clear_addr' <= ScreenW * ScreenH
                       /\ \A a \in 0 .. clear_addr' - 1 : screen'[a] = 0
    <3>1. ClearCounter(FALSE)
      BY <1>2, <1>5 DEF ClearCounter
    <3> QED BY <1>2, <1>5, <3>1, PictureCleared DEF PictureInv
  <2>3. Cells(round'.lines) = {}
    BY <2>1 DEF Cells
  <2> QED BY <2>1, <2>2, <2>3 DEF PictureInv, Cells
<1>6. CASE ~i_reset /\ draw_state = "LOAD"
  <2>1. draw_state' = "DRAW" /\ round' = [round EXCEPT !.lines = @ \cup {ram_data}]
    BY <1>1, <1>6, StateEdge
  <2>2. Lit = Cells(round.lines) /\ BresClock(FALSE, load_vals, ram_data)
    BY <1>2, <1>6 DEF PictureInv, BresClock
  <2>3. PartlyDrawn'
    BY <1>2, <1>6, <2>1, <2>2, PictureBegun
  <2> QED BY <2>1, <2>3 DEF PictureInv
<1>7. CASE ~i_reset /\ draw_state = "DRAW" /\ bres_waiting
  <2>1. draw_state' \in {"WAITING", "LOAD"} /\ round' = round
    BY <1>1, <1>7, StateEdge
  <2>2. Lit' = Cells(round.lines)
    BY <1>2, <1>7, <2>1, PictureFinished DEF PictureInv
  <2> QED BY <2>1, <2>2 DEF PictureInv, Cells
<1>8. CASE ~i_reset /\ draw_state = "DRAW" /\ ~bres_waiting
  <2>1. draw_state' = "DRAW" /\ round' = round
    BY <1>1, <1>8, StateEdge
  <2>2. BresClock(FALSE, FALSE, ram_data)
    BY <1>2, <1>8 DEF BresClock, load_vals
  <2>3. PartlyDrawn'
    BY <1>2, <1>8, <2>1, <2>2, PictureGrows DEF PictureInv
  <2> QED BY <2>1, <2>3 DEF PictureInv
<1> QED BY <1>2, <1>3, <1>4, <1>5, <1>6, <1>7, <1>8 DEF TypeOK

\* Nothing of the picture changes when nothing does.
LEMMA PictureStays ==
  ASSUME QueueInv, PictureInv, UNCHANGED drawVars PROVE PictureInv'
<1>1. UNCHANGED <<draw_state, clear_addr, screen, round>>
      /\ UNCHANGED <<bres_state, x, x0, x1, y, y0, y1, delta_x, delta_y, error,
                     ystep, steep, vals_rdy, o_x_val, o_y_val>>
  BY DEF drawVars, bresVars
<1>2. \A l : Course(l) => Course(l)'
  BY <1>1, CourseStays DEF QueueInv, TypeOK, BresTypeOK
<1>3. Lit' = Lit /\ Pending' = Pending
  BY <1>1 DEF Lit, Pending
<1>4. \A l : Reached(l)' = Reached(l)
  BY <1>1 DEF Reached, PixelAt, Pixel
<1>5. PartlyDrawn => PartlyDrawn'
  <2> SUFFICES ASSUME PartlyDrawn PROVE PartlyDrawn'
    OBVIOUS
  <2>1. PICK l \in round.lines, others \in SUBSET round.lines :
          /\ round.lines = others \cup {l}
          /\ Course(l)
          /\ Pending \subseteq Screen
          /\ Lit \cup Pending = Cells(others) \cup {Address(p) : p \in Reached(l)}
    BY DEF PartlyDrawn
  <2>2. Course(l)' /\ Reached(l)' = Reached(l)
    BY <1>2, <1>4, <2>1
  <2> QED BY <1>1, <1>3, <2>1, <2>2 DEF PartlyDrawn, Cells, Screen
<1> QED BY <1>1, <1>3, <1>5 DEF PictureInv, Cells

(***************************************************************************)
(* Whatever the lines, on the screen, and whatever the client does: when a *)
(* round is over the screen shows every pixel of the lines taken in it and *)
(* nothing else.  The unit has handed out a part of the line it is at, and *)
(* what of that part is not in the buffer is the pixel it holds out.       *)
(***************************************************************************)
THEOREM PictureAlwaysComplete ==
  ASSUME LinesOnScreen PROVE Spec => []PictureComplete
<1>1. Init => QueueInv /\ PictureInv
  BY InitQueueInv DEF Init, PictureInv
<1>2. (QueueInv /\ PictureInv) /\ [Clock]_drawVars => (QueueInv /\ PictureInv)'
  BY NextQueueInv, NextPictureInv, PictureStays
<1>3. QueueInv /\ PictureInv => PictureComplete
  BY DEF PictureInv, PictureComplete, Lit, Screen, Cells
<1> QED BY <1>1, <1>2, <1>3, PTL DEF Spec
-----------------------------------------------------------------------------
(***************************************************************************)
(* The scan.  The monitor counts from pulses that came a frame ago, so     *)
(* that its counters are right is a matter of everything since: the        *)
(* invariant says what HS, VS and blank are at each place of the           *)
(* controller's counters, when the monitor has seen its first pulses, and  *)
(* what it has counted from there.                                         *)
(***************************************************************************)
BlankAt(h, v) == IF h < HLINES /\ v < VLINES THEN 0 ELSE 1

\* How far it is from the pulses, by the counters.
PixelsSince == IF hcounter > HFP THEN hcounter - HFP - 1 ELSE hcounter + HMAX - HFP
LinesSince ==
  (IF vcounter > VFP \/ (vcounter = VFP /\ hcounter > 0) THEN vcounter - VFP
   ELSE vcounter + VMAX + 1 - VFP)
  + (IF hcounter > HFP THEN 1 ELSE 0)

LineBefore == IF vcounter = 0 THEN VMAX ELSE vcounter - 1

\* The controller's outputs are a pixel behind its counters.
OutputsFollow ==
  /\ hcounter # 0 => /\ HS = Pulse(hcounter - 1, HFP, HSP)
                     /\ VS = Pulse(vcounter, VFP, VSP)
                     /\ blank = BlankAt(hcounter - 1, vcounter)
  /\ hcounter = 0 /\ pixels # Unknown =>
       HS = 1 /\ blank = 1 /\ VS = Pulse(LineBefore, VFP, VSP)

\* The monitor has counted what the counters have, from the first pulses.
MonitorFollows ==
  /\ pixels = Unknown => vcounter = 0 /\ hcounter <= HFP
  /\ pixels # Unknown => pixels = PixelsSince
  /\ lines = Unknown => vcounter < VFP \/ (vcounter = VFP /\ hcounter = 0)
  /\ lines # Unknown => lines = LinesSince /\ pixels # Unknown

\* The address last read is where the counters are, or were a clock ago.
BufferFollows ==
  IF JustMoved THEN hcounter # 0 => pixel = HLINES * vcounter + hcounter - 1
               ELSE pixel = i_b_addr

\* What holds between any two clocks.
ScanInv == ScanTypeOK /\ OutputsFollow /\ MonitorFollows /\ BufferFollows

\* The sizes, one by one.
LEMMA ScanSizes ==
  ASSUME SizesAreReal
  PROVE  /\ HLINES \in Nat \ {0} /\ HFP \in Nat \ {0} /\ HSP \in Nat \ {0} /\ HMAX \in Nat \ {0}
         /\ VLINES \in Nat \ {0} /\ VFP \in Nat \ {0} /\ VSP \in Nat \ {0} /\ VMAX \in Nat \ {0}
         /\ HLINES < HFP /\ HFP < HSP /\ HSP < HMAX
         /\ VLINES < VFP /\ VFP < VSP /\ VSP < VMAX
         /\ P_DIV_FACTOR \in Nat \ {0} /\ P_DIV_FACTOR % 2 = 0
  BY DEF SizesAreReal

\* The address of a place the counters can be at.
LEMMA ReadAddressFits ==
  ASSUME SizesAreReal, NEW h \in 0 .. HMAX, NEW v \in 0 .. VMAX
  PROVE  HLINES * v + h \in 0 .. HLINES * VMAX + HMAX
<1>1. HLINES * v \in Nat /\ HLINES * v <= HLINES * VMAX /\ HLINES * VMAX \in Nat
  BY ScanSizes
<1> QED BY <1>1, ScanSizes

\* At power-up no pulse has come, and the registers may be anything.
LEMMA InitScanInv == ASSUME SizesAreReal, ScanInit PROVE ScanInv
<1>1. HLINES * 0 + 0 = 0
  BY ScanSizes
<1>2. pixel \in 0 .. HLINES * VMAX + HMAX
  BY <1>1, ReadAddressFits, ScanSizes DEF ScanInit
<1>3. clk_counter \in 1 .. P_DIV_FACTOR /\ hcounter \in 0 .. HMAX
      /\ vcounter \in 0 .. VMAX /\ pixels \in -1 .. HMAX /\ lines \in -1 .. VMAX + 1
  BY ScanSizes DEF ScanInit, Unknown
<1>4. ScanTypeOK
  BY <1>2, <1>3 DEF ScanInit, ScanTypeOK, Unknown
<1>5. OutputsFollow /\ MonitorFollows
  BY ScanSizes DEF ScanInit, OutputsFollow, MonitorFollows, Unknown
<1>6. BufferFollows
  BY <1>1 DEF ScanInit, BufferFollows, JustMoved, i_b_addr
<1> QED BY <1>4, <1>5, <1>6 DEF ScanInv

\* Half a pixel: P_DIV_FACTOR is even, so both halves are as long.
LEMMA DividerStep ==
  ASSUME SizesAreReal, ScanTypeOK, Divide
  PROVE  clk_counter' \in 1 .. P_DIV_FACTOR /\ tmp_clk' \in 0 .. 1
         /\ (JustMoved' <=> PixelEdge)
<1>1. /\ clk_counter \in 1 .. P_DIV_FACTOR /\ tmp_clk \in 0 .. 1
      /\ P_DIV_FACTOR \in Nat \ {0} /\ P_DIV_FACTOR \div 2 \in Nat
      /\ P_DIV_FACTOR \div 2 <= P_DIV_FACTOR
  BY ScanSizes DEF ScanTypeOK
<1>2. CASE LastClock
  <2>1. clk_counter' = 1 /\ tmp_clk' = 1 - tmp_clk
    BY <1>2 DEF Divide
  <2> QED BY <1>1, <1>2, <2>1 DEF JustMoved, PixelEdge
<1>3. CASE ~LastClock
  <2>1. clk_counter' = clk_counter + 1 /\ tmp_clk' = tmp_clk
    BY <1>3 DEF Divide
  <2> QED BY <1>1, <1>3, <2>1 DEF JustMoved, PixelEdge, LastClock
<1> QED BY <1>2, <1>3

\* A pixel: controller and monitor.
LEMMA PixelStep ==
  ASSUME SizesAreReal, ScanTypeOK, OutputsFollow, MonitorFollows, CountPixel, Follow
  PROVE  /\ hcounter' \in 0 .. HMAX /\ vcounter' \in 0 .. VMAX
         /\ {HS', VS', blank'} \subseteq 0 .. 1
         /\ pixels' \in Unknown .. HMAX /\ lines' \in Unknown .. VMAX + 1
         /\ OutputsFollow' /\ MonitorFollows'
         /\ hcounter' # 0 => hcounter' = hcounter + 1 /\ vcounter' = vcounter
<1>1. /\ hcounter \in 0 .. HMAX /\ vcounter \in 0 .. VMAX
      /\ HS \in 0 .. 1 /\ VS \in 0 .. 1 /\ Unknown = -1
      /\ pixels \in -1 .. HMAX /\ lines \in -1 .. VMAX + 1
  BY DEF ScanTypeOK, Unknown
<1>2. /\ hcounter' = NextColumn /\ vcounter' = NextLine
      /\ blank' = BlankAt(hcounter, vcounter)
      /\ HS' = Pulse(hcounter, HFP, HSP) /\ VS' = Pulse(vcounter, VFP, VSP)
  BY DEF CountPixel, BlankAt, video_enable
<1>3. hcounter' \in 0 .. HMAX /\ vcounter' \in 0 .. VMAX
  BY <1>1, <1>2, ScanSizes DEF NextColumn, NextLine
<1>4. {HS', VS', blank'} \subseteq 0 .. 1
  BY <1>2 DEF Pulse, BlankAt
<1>5. hcounter' # 0 => hcounter' = hcounter + 1 /\ vcounter' = vcounter
  BY <1>2 DEF NextColumn, NextLine
<1>6. HS = 1 /\ HS' = 0 <=> hcounter = HFP
  BY <1>1, <1>2, ScanSizes DEF OutputsFollow, MonitorFollows, Pulse
<1>7. VS = 1 /\ VS' = 0 <=> vcounter = VFP /\ hcounter = 0
  BY <1>1, <1>2, ScanSizes DEF OutputsFollow, MonitorFollows, Pulse, LineBefore
<1>8. /\ pixels' = IF hcounter = HFP THEN 0 ELSE IF pixels = -1 THEN -1 ELSE pixels + 1
      /\ lines' = IF vcounter = VFP /\ hcounter = 0 THEN 0
                  ELSE IF hcounter = HFP /\ lines # -1 THEN lines + 1 ELSE lines
  BY <1>1, <1>6, <1>7 DEF Follow
<1>9. /\ pixels' = -1 => vcounter' = 0 /\ hcounter' <= HFP
      /\ pixels' # -1 => pixels' = PixelsSince'
  BY <1>1, <1>2, <1>3, <1>8, ScanSizes DEF MonitorFollows, PixelsSince, NextColumn, NextLine
<1>10. /\ lines' = -1 => vcounter' < VFP \/ (vcounter' = VFP /\ hcounter' = 0)
       /\ lines' # -1 => lines' = LinesSince' /\ pixels' # -1
  BY <1>1, <1>2, <1>3, <1>8, ScanSizes DEF MonitorFollows, LinesSince, NextColumn, NextLine
<1>11. MonitorFollows'
  BY <1>1, <1>9, <1>10 DEF MonitorFollows, Unknown
<1>12. pixels' \in -1 .. HMAX /\ lines' \in -1 .. VMAX + 1
  BY <1>3, <1>9, <1>10, ScanSizes DEF PixelsSince, LinesSince
<1>13. OutputsFollow'
  BY <1>1, <1>2, <1>3, <1>8, ScanSizes
     DEF OutputsFollow, MonitorFollows, NextColumn, NextLine, LineBefore, Pulse, BlankAt, Unknown
<1> QED BY <1>1, <1>3, <1>4, <1>5, <1>11, <1>12, <1>13

\* A fast clock, with a pixel's edge or between two of them.
LEMMA NextScanInv == SizesAreReal /\ ScanInv /\ [ScanClock]_scanVars => ScanInv'
<1>1. ASSUME SizesAreReal, ScanInv, ScanClock PROVE ScanInv'
  <2>1. /\ ScanTypeOK /\ OutputsFollow /\ MonitorFollows /\ Divide
        /\ pixel' = HLINES * vcounter + hcounter
        /\ hcounter \in 0 .. HMAX /\ vcounter \in 0 .. VMAX
    BY <1>1 DEF ScanInv, ScanClock, ScanTypeOK, i_b_addr
  <2>2. clk_counter' \in 1 .. P_DIV_FACTOR /\ tmp_clk' \in 0 .. 1
        /\ (JustMoved' <=> PixelEdge)
    BY <1>1, <2>1, DividerStep
  <2>3. pixel' \in 0 .. HLINES * VMAX + HMAX
    BY <1>1, <2>1, ReadAddressFits
  <2>4. CASE PixelEdge
    <3>1. CountPixel /\ Follow
      BY <1>1, <2>4 DEF ScanClock
    <3>2. /\ hcounter' \in 0 .. HMAX /\ vcounter' \in 0 .. VMAX
          /\ {HS', VS', blank'} \subseteq 0 .. 1
          /\ pixels' \in Unknown .. HMAX /\ lines' \in Unknown .. VMAX + 1
          /\ OutputsFollow' /\ MonitorFollows'
          /\ hcounter' # 0 => hcounter' = hcounter + 1 /\ vcounter' = vcounter
      BY <1>1, <2>1, <3>1, PixelStep
    <3>3. BufferFollows'
      <4>1. SUFFICES ASSUME hcounter' # 0
                     PROVE  pixel' = HLINES * vcounter' + hcounter' - 1
        BY <2>2, <2>4 DEF BufferFollows
      <4>2. PICK c \in Int : c = HLINES * vcounter
        BY <1>1, <2>1, ScanSizes
      <4>3. hcounter' - 1 = hcounter /\ HLINES * vcounter' = c
        BY <2>1, <3>2, <4>1, <4>2
      <4> QED BY <2>1, <3>2, <4>1, <4>2, <4>3
    <3>4. ScanTypeOK'
      BY <2>2, <2>3, <3>2 DEF ScanTypeOK, Unknown
    <3> QED BY <3>2, <3>3, <3>4 DEF ScanInv
  <2>5. CASE ~PixelEdge
    <3>1. UNCHANGED <<hcounter, vcounter, HS, VS, blank, pixels, lines>>
      BY <1>1, <2>5 DEF ScanClock, controller, monitor
    <3>2. ScanTypeOK'
      BY <2>1, <2>2, <2>3, <3>1 DEF ScanTypeOK, Unknown
    <3>3. OutputsFollow' /\ MonitorFollows'
      BY <2>1, <3>1 DEF OutputsFollow, MonitorFollows, PixelsSince, LinesSince,
                        LineBefore, Pulse, BlankAt, Unknown
    <3>4. BufferFollows'
      BY <2>1, <2>2, <2>5, <3>1 DEF BufferFollows, i_b_addr
    <3> QED BY <3>2, <3>3, <3>4 DEF ScanInv
  <2> QED BY <2>4, <2>5
<1>2. ASSUME ScanInv, UNCHANGED scanVars PROVE ScanInv'
  BY <1>2 DEF scanVars, divider, controller, monitor, ScanInv, ScanTypeOK, OutputsFollow,
              MonitorFollows, PixelsSince, LinesSince, LineBefore, Pulse, BlankAt,
              Unknown, BufferFollows, JustMoved, i_b_addr
<1> QED BY <1>1, <1>2

(***************************************************************************)
(* Whatever the screen and its porches and pulses: from the first frame    *)
(* that the monitor has seen begin, colours are let through exactly while  *)
(* it is on its screen, and each place gets its own pixel for one fast     *)
(* clock and the one right of it for the rest.                             *)
(***************************************************************************)
THEOREM ScanAlwaysRight == ASSUME SizesAreReal PROVE ScanSpec => []ScanIsRight
<1>1. ScanInv => ScanIsRight
  <2> SUFFICES ASSUME ScanInv, InStep PROVE PictureStands
    BY DEF ScanInv, ScanIsRight, PictureStands
  <2>1. /\ hcounter \in 0 .. HMAX /\ vcounter \in 0 .. VMAX
        /\ pixels = PixelsSince /\ lines = LinesSince /\ pixels # Unknown
    BY DEF ScanInv, ScanTypeOK, InStep, MonitorFollows
  <2>2. Column \in 0 .. HLINES - 1 <=> hcounter \in 1 .. HLINES
    BY <2>1, ScanSizes DEF PixelsSince, Column
  <2>3. hcounter \in 1 .. HLINES =>
          /\ Column = hcounter - 1
          /\ Row = IF vcounter >= VFP THEN vcounter - VMAX - 1 ELSE vcounter
    <3>1. SUFFICES ASSUME hcounter \in 1 .. HLINES
                   PROVE  /\ Column = hcounter - 1
                          /\ Row = IF vcounter >= VFP THEN vcounter - VMAX - 1 ELSE vcounter
      OBVIOUS
    <3>2. hcounter \in Int /\ vcounter \in Int
      BY <2>1, ScanSizes
    <3>3. hcounter > 0 /\ ~(hcounter > HFP)
      BY <3>1, ScanSizes
    <3>4. pixels = hcounter + HMAX - HFP
      BY <2>1, <3>3 DEF PixelsSince
    <3>5. lines = (IF vcounter >= VFP THEN vcounter - VFP
                   ELSE vcounter + VMAX + 1 - VFP) + 0
      <4>1. vcounter > VFP \/ (vcounter = VFP /\ hcounter > 0) <=> vcounter >= VFP
        BY <3>3, <3>2, ScanSizes
      <4> QED BY <2>1, <3>3, <4>1 DEF LinesSince
    <3>6. Column = hcounter - 1
      BY <3>4, <3>2, ScanSizes DEF Column
    <3>7. Row = IF vcounter >= VFP THEN vcounter - VMAX - 1 ELSE vcounter
      BY <3>5, <3>2, ScanSizes DEF Row
    <3> QED BY <3>6, <3>7
  <2>4. hcounter \in 1 .. HLINES =>
          /\ Row \in 0 .. VLINES - 1 <=> vcounter < VLINES
          /\ vcounter < VLINES => Row = vcounter
    <3>1. vcounter \in Int /\ 0 <= vcounter /\ vcounter <= VMAX
      BY <2>1, ScanSizes
    <3>2. CASE vcounter >= VFP
      BY <2>3, <3>1, <3>2, ScanSizes
    <3>3. CASE ~(vcounter >= VFP)
      BY <2>3, <3>1, <3>3, ScanSizes
    <3> QED BY <3>2, <3>3
  <2>5. OnMonitor <=> hcounter \in 1 .. HLINES /\ vcounter < VLINES
    BY <2>2, <2>4 DEF OnMonitor
  <2>6. blank = 0 <=> hcounter \in 1 .. HLINES /\ vcounter < VLINES
    BY <2>1, ScanSizes DEF ScanInv, OutputsFollow, BlankAt
  <2>7. ASSUME OnMonitor
        PROVE  pixel = HLINES * Row + Column + (IF JustMoved THEN 0 ELSE 1)
    <3>1. Row = vcounter /\ Column = hcounter - 1 /\ hcounter # 0
      BY <2>1, <2>3, <2>4, <2>5, <2>7
    <3>2. PICK c \in Int : c = HLINES * vcounter
      BY <2>1, ScanSizes
    <3> QED BY <2>1, <3>1, <3>2 DEF ScanInv, BufferFollows, i_b_addr
  <2> QED BY <2>5, <2>6, <2>7 DEF PictureStands
<1> QED BY <1>1, InitScanInv, NextScanInv, PTL DEF ScanSpec
=============================================================================
