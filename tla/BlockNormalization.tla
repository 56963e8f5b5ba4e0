------------------------- MODULE BlockNormalization -------------------------
(***************************************************************************)
(* LSI-Contest/RTL/Normalization V2: Normalize.v over mag.v, sqr.v and the *)
(* square root of module SquareRoot.  In every clock a block of numbers is *)
(* squared, the root of the sum of the squares taken before is asked for,  *)
(* and the block is shifted by the logarithm of a root found earlier.      *)
(*                                                                         *)
(* mag.v ties clr to 0 and go to 1.  Nothing then gives the registers of   *)
(* the root their reset values: they power up as zero or, where synthesis  *)
(* inverts a register to keep its preset, as those values.                 *)
(***************************************************************************)
EXTENDS SquareRoot

CONSTANTS
  Size,       \* numbers of a block, 36 in the source
  Values,     \* values of a number
  Shift       \* bits by which a number is shifted left, 8 in the source

Cells == 1 .. Size

\* The smallest squares fit the registers of the root.
BlocksAreReal ==
  /\ Size \in Nat \ {0} /\ 0 \in Values /\ Values \subseteq 0 .. RootWidth - 1
  /\ Shift \in 0 .. 15 /\ Root >= 3

VARIABLES
  block,      \* the block that was given in the last clock
  sqr,        \* its squares
  step,       \* by how much the next block is shifted right
  o           \* the block that was given, scaled

blockVars == <<sqrtVars, block, sqr, step, o>>

MagnitudeRange == 2 * Root * Root   \* 17 bits
Out            == Root * Root       \* 16 bits

\* m, of which the port sw takes the low 16 bits.
Sum ==
  LET sum[k \in 0 .. Size] == IF k = 0 THEN 0 ELSE sum[k - 1] + sqr[k]
  IN  (sum[Size] % MagnitudeRange) % Out

IsSet(n, i) == (n \div 2^i) % 2 = 1

\* (Mutant: the scan goes on to bit 0 and counts from 1.)
LogFrom1(n) ==
  CHOOSE j \in 0 .. 16 :
    (j = 0 \/ IsSet(n, j - 1)) /\ \A k \in j .. 15 : ~ IsSet(n, k)

\* The highest bit of n that is set, of bits 15 to 1; 0 if there is none.
Log(n) ==
  CHOOSE i \in 0 .. 15 :
    (i = 0 \/ IsSet(n, i)) /\ \A k \in i + 1 .. 15 : ~ IsSet(n, k)

Scale(n, by) == ((n * 2^Shift) % Out) \div 2^by

\* clr tied to 0, go to 1.
RootClock == Start(TRUE, Sum) \/ Test \/ Update \/ Done

BlockClock(d) ==
  /\ block' = d
  /\ sqr' = [k \in Cells |-> (d[k] * d[k]) % MagnitudeRange]
  /\ RootClock
  /\ step' = Log(root)
  /\ o' = [k \in Cells |-> Scale(d[k], step)]

BlockInit ==
  /\ present_state = "start" /\ a = 0 /\ root = 0
  /\ \/ sq = 0 /\ del = 0
     \/ sq = 1 /\ del = 3
  /\ block = [k \in Cells |-> 0]
  /\ sqr = [k \in Cells |-> 0]
  /\ step = 0
  /\ o = [k \in Cells |-> 0]

BlockNext == \E d \in [Cells -> Values] : BlockClock(d)

\* The clock never stops.
BlockClocks == BlockInit /\ [][BlockNext]_blockVars
BlockSpec == BlockClocks /\ WF_blockVars(BlockNext)

(***************************************************************************)
(* Properties.                                                             *)
(***************************************************************************)

\* The registers have their widths.
BlockTypeOK ==
  /\ TypeOK
  /\ block \in [Cells -> Values]
  /\ sqr \in [Cells -> 0 .. MagnitudeRange - 1]
  /\ step \in 0 .. 15 /\ o \in [Cells -> 0 .. Out - 1]

(***************************************************************************)
(* No block is ever scaled by its magnitude: what comes out are the 16 low *)
(* bits of the numbers shifted left, whatever was given before.  The root  *)
(* takes its operand in the first clock, before any block is squared, and  *)
(* a sum of 0 has the step 0.                                              *)
(***************************************************************************)
NeverScaled == \A k \in Cells : o[k] = (block[k] * 2^Shift) % Out

(***************************************************************************)
(* The control of the root comes to state done and stays there: one root   *)
(* is taken for all blocks.                                                *)
(***************************************************************************)
OneRootForAll == <>[](present_state = "done")

=============================================================================
