------------------------------ MODULE HogCell -------------------------------
(***************************************************************************)
(* LSI-Contest/RTL/block_diagram/human_detector.bdf: magtan.v over         *)
(* isqrt.v, sqr.v and root_sqr.v takes the two differences of a pixel, a   *)
(* new pair in every clock, to the length and the bin of its gradient.     *)
(* They go straight into getHistogram.v: nine sums, one for each bin of    *)
(* angles, and the register H that shows them.  The differences are 16     *)
(* bits in two's complement.  The length goes through four registers, the  *)
(* bin through one.  The diagram ties the enable input of the histogram to *)
(* the clock it is sampled with, so that either value may be sampled in    *)
(* any clock.                                                              *)
(*                                                                         *)
(* Synthesized, the loops of sqr.v and root_sqr.v are combinational and    *)
(* square is sum; the registers power up as zero.  dx1, dy1 and neg of     *)
(* magtan.v are left out: the first two are never read and the third is    *)
(* zero in both branches.                                                  *)
(*                                                                         *)
(* given is what went in since power-up, one entry for each clock: the     *)
(* gradient, and whether rst and enable were seen.  Nothing reads it; the  *)
(* properties say with it what the pipeline should have made of it.        *)
(***************************************************************************)
EXTENDS Integers, Sequences, FiniteSets

CONSTANTS
  Gradients,   \* the pairs <<dx, dy>> that are given, signed
  RootSteps,   \* iterations of the loop of root_sqr.v, 17 in the source
  SumRange,    \* 2^14, the range of a sum
  MaxClocks,   \* bound on the clocks of a behaviour
  MaxUpsets    \* bound on the clocks with rst or without enable

Differences == {d \in Int : -32768 <= d /\ d <= 32767}

GradientsAreReal ==
  /\ Gradients \subseteq Differences \X Differences
  /\ RootSteps \in Nat /\ RootSteps >= 17
  /\ SumRange \in Nat /\ SumRange > 0

ASSUME GradientsAssumption == GradientsAreReal

VARIABLES
  squares,     \* the squares of dx and dy, 17 bits each
  length,      \* the register of root_sqr.v
  mag,         \* the register of isqrt.v
  magnitude,   \* the outputs of magtan.v
  tan,
  array,       \* getHistogram.v: the sums
  H,           \* and what it shows of them
  given

gradientVars == <<squares, length, mag, magnitude, tan>>
histogramVars == <<array, H>>
hogVars == <<gradientVars, histogramVars, given>>

\* The first n of some numbers, added up.
SumTo(n, numbers) ==
  LET sum[i \in 0 .. n] == IF i = 0 THEN 0 ELSE sum[i - 1] + numbers[i]
  IN  sum[n]

\* sqr.v: val is what the 10-bit port leaves of a difference; its shifted
\* copies are added up modulo 2^17.
Val(d) == d % 2^10
Masks == <<1, 2, 4, 8, 16, 32, 64, 128, 256, 512>>
Square(val) ==
  SumTo(10, [i \in 1 .. 10 |-> ((val \div Masks[i]) % 2) * (val * Masks[i])]) % 2^17

\* The ladder of root_sqr.v: below a limit, bit begins as 2^14 shifted right
\* so much.
Ladder ==
  << <<2, 2^14 \div 2^18>>, <<4, 2^14 \div 2^16>>, <<16, 2^14 \div 2^14>>,
     <<64, 2^14 \div 2^12>>, <<256, 2^14 \div 2^10>>, <<1024, 2^14 \div 2^8>>,
     <<4096, 2^14 \div 2^6>>, <<16384, 2^14 \div 2^4>>, <<131072, 2^14 \div 2^2>> >>

FirstBit(m) ==
  IF m > 2^14 THEN 2^14
  ELSE LET rung == CHOOSE i \in DOMAIN Ladder :
                     /\ m < Ladder[i][1]
                     /\ \A k \in 1 .. i - 1 : m >= Ladder[k][1]
       IN  Ladder[rung][2]

RootStep(r) ==
  IF r.bit = 0 THEN r
  ELSE IF r.m >= r.res + r.bit
       THEN [r EXCEPT !.m = @ - (r.res + r.bit), !.res = @ + 2 * r.bit]
       ELSE [r EXCEPT !.res = @ \div 2, !.bit = @ \div 4]

Root_sqr(n) ==
  LET r[i \in 0 .. RootSteps] ==
        IF i = 0 THEN [m |-> n, res |-> 0, bit |-> FirstBit(n)]
        ELSE RootStep(r[i - 1])
  IN  r[RootSteps].res % 2^11

SumOfSquares(x, y) == (x + y) % 2^17

\* magtan.v: dy times the tangents of 20, 40, 60 and 80 degrees against dx.
\* dxshift7 is overwritten with dx shifted by 10.
Word(d) == d % 2^16
dxshift7(dx) == 1024 * dx

Bin(g) ==
  LET dx == Word(g[1])
      dy == Word(g[2])
  IN  IF 351 * dy < dxshift7(dx) THEN 0
      ELSE CASE 351 * dy > 128 * dx /\ 153 * dy < 128 * dx -> 1
             [] 153 * dy > 128 * dx /\ 76 * dy < 128 * dx  -> 2
             [] 76 * dy > 128 * dx /\ 181 * dy < 1024 * dx -> 3
             [] OTHER                                      -> 8

\* One rising edge.  rst clears the length only: the bin is assigned again
\* further down in the same block.
Pixel(g, rst) ==
  /\ squares' = <<Square(Val(g[1])), Square(Val(g[2]))>>
  /\ length' = Root_sqr(SumOfSquares(squares[1], squares[2]))
  /\ mag' = length
  /\ magnitude' = IF rst THEN 0 ELSE mag
  /\ tan' = Bin(g)

GradientInit ==
  squares = <<0, 0>> /\ length = 0 /\ mag = 0 /\ magnitude = 0 /\ tan = 0

Bins == 0 .. 8

\* (Mutant: H shows the sums as they become.)

AddShown ==
  LET sums == [b \in Bins |-> IF b = tan
                              THEN (array[b] + magnitude) % SumRange
                              ELSE array[b]]
  IN  array' = sums /\ H' = sums

\* enable: H takes the sums as they were; an angle of 9 or more adds to none.
Add ==
  /\ array' = [b \in Bins |-> IF b = tan
                              THEN (array[b] + magnitude) % SumRange
                              ELSE array[b]]
  /\ H' = array

\* Without enable everything is cleared.
Empty == array' = [b \in Bins |-> 0] /\ H' = [b \in Bins |-> 0]

HistogramInit == array = [b \in Bins |-> 0] /\ H = [b \in Bins |-> 0]

Upsets == {i \in DOMAIN given : given[i].rst \/ ~ given[i].enable}

CellClock(g, rst, enable) ==
  /\ Len(given) < MaxClocks
  /\ (rst \/ ~ enable) => Cardinality(Upsets) < MaxUpsets
  /\ given' = Append(given, [g |-> g, rst |-> rst, enable |-> enable])
  /\ Pixel(g, rst)
  /\ IF enable THEN Add ELSE Empty

CellInit == GradientInit /\ HistogramInit /\ given = <<>>

CellNext == \E g \in Gradients, rst, enable \in BOOLEAN : CellClock(g, rst, enable)

CellSpec == CellInit /\ [][CellNext]_hogVars

(***************************************************************************)
(* Properties.                                                             *)
(***************************************************************************)

Now == Len(given)

\* The registers have their widths.
HogTypeOK ==
  /\ squares \in (0 .. 2^17 - 1) \X (0 .. 2^17 - 1)
  /\ length \in 0 .. 2^11 - 1 /\ mag \in 0 .. 2^11 - 1
  /\ magnitude \in 0 .. 2^11 - 1 /\ tan \in 0 .. 8
  /\ array \in [Bins -> 0 .. SumRange - 1] /\ H \in [Bins -> 0 .. SumRange - 1]

IsRoot(r, n) == r * r <= n /\ n < (r + 1) * (r + 1)

Norm(g) == g[1] * g[1] + g[2] * g[2]

\* The length of a gradient of which neither difference is negative, as a
\* set of the one number it may be; root_sqr.v takes the root of 1, 2 and 3
\* for 0.
Lengths(g) ==
  IF Norm(g) < 4 THEN {0} ELSE {r \in 0 .. 361 : IsRoot(r, Norm(g))}

\* MATLAB/getHistogram.m:15 wants the length of every gradient; a difference
\* below zero is squared as the 10 bits of it, without their sign.
InRange(g) == g[1] \in 0 .. 255 /\ g[2] \in 0 .. 255

(***************************************************************************)
(* Four clocks after a gradient whose differences are at most 255 and not  *)
(* negative the output holds the integer root of the sum of its squares,   *)
(* whatever was given before and after it, unless rst is seen at that very *)
(* clock.  (The squares and their sum need all of the 17 bits, and the     *)
(* unrolled loop all of its steps.)                                        *)
(***************************************************************************)
MagnitudeIsRoot ==
  Now >= 4 /\ InRange(given[Now - 3].g) =>
    magnitude \in IF given[Now].rst THEN {0} ELSE Lengths(given[Now - 3].g)

(***************************************************************************)
(* The histogram is the one of the bins of one pixel with the length of    *)
(* the pixel three clocks before it: of the pixels from the last clock     *)
(* without enable to two clocks ago, since the register H is a clock late  *)
(* and the bin itself takes one.  (Pixels before the first have length 0;  *)
(* sums have SumRange values.)                                             *)
(***************************************************************************)
Counted(b, i) ==
  Bin(given[i].g) = b /\ \A k \in i + 1 .. Now : given[k].enable

LengthAt(i) ==
  IF i < 4 \/ given[i].rst THEN 0
  ELSE CHOOSE r \in Lengths(given[i - 3].g) : TRUE

\* The lengths that bin b has by the n-th clock.
Total(b, n) == SumTo(n, [i \in 1 .. n |-> IF Counted(b, i) THEN LengthAt(i) ELSE 0])

Ago(clocks) == IF Now < clocks THEN 0 ELSE Now - clocks

HistogramIsOfGradients ==
  (\A i \in DOMAIN given : InRange(given[i].g)) =>
    \A b \in Bins : H[b] = Total(b, Ago(2)) % SumRange

(***************************************************************************)
(* Only three of the nine bins are ever used: dx is shifted by 10 bits in  *)
(* the comparison that should leave bin 0 at 20 degrees, and the sign of   *)
(* the product, which chooses bins 4 to 7, is always taken for positive.   *)
(***************************************************************************)
ThreeBins == tan \in {0, 3, 8} /\ \A b \in Bins \ {0, 3, 8} : array[b] = 0

(***************************************************************************)
(* All of it: four clocks after a gradient its integer length is on the    *)
(* output, and the histogram, in three bins, is that of the gradients      *)
(* given, each with the length that the pipeline has ready when its bin    *)
(* is.                                                                     *)
(***************************************************************************)
HistogramIsOfLengths ==
  HogTypeOK /\ MagnitudeIsRoot /\ HistogramIsOfGradients /\ ThreeBins
=============================================================================
