----------------------------- MODULE SquareRoot -----------------------------
(***************************************************************************)
(* LSI-Contest/RTL/Normalization V2: SQRT.v, a controller (SQRTctrl.v)     *)
(* over a datapath (SQRTpath.v, of registers regr2.v), which takes the     *)
(* integer square root of its operand by adding up odd numbers.            *)
(*                                                                         *)
(* The square is held in as many bits as the operand.  Root stands for     *)
(* 2^(half the width of the operand), 256 in the source, so that           *)
(* arithmetic on a and sq is modulo Root^2.                                *)
(***************************************************************************)
EXTENDS Integers

CONSTANTS
  Root,       \* 2^8 in the source
  RootWidth   \* 2^10, the range of the result

ASSUME WidthAssumption ==
  /\ Root \in Nat /\ Root >= 2
  /\ RootWidth \in Nat /\ RootWidth >= Root

VARIABLES
  present_state,
  a, sq, del,     \* operand, square reached, odd number to add next
  root            \* the result

sqrtVars == <<present_state, a, sq, del, root>>

Words == 0 .. Root * Root - 1

\* (Mutants: sq may only get below a; half of its bits are compared.)
lteflgStrict == sq < a
lteflgLow    == sq % Root <= a

lteflg == sq <= a
s      == (sq + del) % (Root * Root)
dp2    == (del + 2) % (Root * Root)
dm1    == (((del \div 2) % RootWidth) - 1) % RootWidth

\* clr: asynchronous, in every register of controller and datapath.
Clear ==
  /\ present_state' = "start"
  /\ a' = 0 /\ sq' = 1 /\ del' = 3 /\ root' = 0

\* ald
Start(go, sw) ==
  /\ present_state = "start"
  /\ present_state' = IF go THEN "test" ELSE "start"
  /\ a' = sw
  /\ UNCHANGED <<sq, del, root>>

Test ==
  /\ present_state = "test"
  /\ present_state' = IF lteflg THEN "update" ELSE "done"
  /\ UNCHANGED <<a, sq, del, root>>

\* sqld, dld
Update ==
  /\ present_state = "update"
  /\ present_state' = "test"
  /\ sq' = s
  /\ del' = dp2
  /\ UNCHANGED <<a, root>>

\* outld; there is no way on but clr.
Done ==
  /\ present_state = "done"
  /\ root' = dm1
  /\ UNCHANGED <<present_state, a, sq, del>>

Clock ==
  \/ \E go \in BOOLEAN, sw \in Words : Start(go, sw)
  \/ Test
  \/ Update
  \/ Done

\* After clr, without which the registers have no defined values.
Init == present_state = "start" /\ a = 0 /\ sq = 1 /\ del = 3 /\ root = 0

Next == Clock \/ Clear

Spec     == Init /\ [][Next]_sqrtVars
\* The clock never stops.
FairSpec == Spec /\ WF_sqrtVars(Test \/ Update \/ Done)

(***************************************************************************)
(* Properties.                                                             *)
(***************************************************************************)

\* The registers have their widths.
TypeOK ==
  /\ present_state \in {"start", "test", "update", "done"}
  /\ a \in Words /\ sq \in Words /\ del \in Words
  /\ root \in 0 .. RootWidth - 1

(***************************************************************************)
(* The operands the width of sq is enough for: the loop ends on a square   *)
(* above a, which has to be below Root^2.                                  *)
(***************************************************************************)
Fits == a < (Root - 1) * (Root - 1)

\* The squares are those of the odd number that comes next, (del - 1) / 2.
Level == del \div 2

SquaresInStep ==
  Fits => /\ del = 2 * Level + 1 /\ Level >= 1
          /\ sq = Level * Level

(***************************************************************************)
(* In state done the datapath has the integer square root of the operand   *)
(* ready, and the result register holds it or, in the first clock of the   *)
(* done signal and after clr only, still zero.                             *)
(***************************************************************************)
IsRootOf(r, n) == r * r <= n /\ n < (r + 1) * (r + 1)

RootCorrect ==
  present_state = "done" /\ Fits => IsRootOf(dm1, a) /\ root \in {0, dm1}

\* All of it, at every clock: widths, squares and the root.
RootIsSound == TypeOK /\ SquaresInStep /\ RootCorrect

(***************************************************************************)
(* With an operand that fits, the loop ends (or clr cuts it short).  An    *)
(* operand above the largest square modulo Root^2 keeps it for ever.       *)
(***************************************************************************)
RootFound ==
  (present_state = "test" /\ Fits) ~> (present_state \in {"done", "start"})
=============================================================================
