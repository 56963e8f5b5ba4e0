------------------------------- MODULE Cursor -------------------------------
(***************************************************************************)
(* What main() of the mouse host makes of a mouse's reports: the cursor,   *)
(* kept in 16 unsigned bits and held on the screen by maxmin(), and the    *)
(* pixels drawn with the left button and wiped with the right.  A report   *)
(* of a mouse with 8-byte packets begins with a number of its own.         *)
(***************************************************************************)
EXTENDS Integers

CONSTANTS LastX, LastY, \* 639 and 479: the screen's last column and row
          Words,        \* px and py are alt_u16: modulo 2^16
          Bytes         \* dx and dy are signed chars: 2^8 values around 0

ASSUME SizeAssumption ==
  /\ {LastX, LastY} \subseteq Nat /\ Bytes \in Nat \ {0} /\ Words \in Nat
  /\ Bytes % 2 = 0 /\ Words >= LastX + Bytes + 1 /\ Words >= LastY + Bytes + 1

VARIABLES px, py, dx, dy, pbutton, pixels
vars == <<px, py, dx, dy, pbutton, pixels>>

\* (Mutant: the byte in the middle is taken for positive.)
SignedAtHalf(b) == IF b <= Bytes \div 2 THEN b ELSE b - Bytes
Signed(b) == IF b < Bytes \div 2 THEN b ELSE b - Bytes

MaxMin(no, most, least) == IF no > most THEN most ELSE IF no < least THEN least ELSE no

\* A byte that repeats the last stands for rest, and a zero for the last.
Delta(old, b) == IF b = 0 THEN old ELSE IF Signed(b) = old THEN 0 ELSE Signed(b)

Button(b) == IF b \in {1, 2} THEN b ELSE 0

\* The screen's memory, row after row; the registers of the display follow.
Address(x, y) == y * (LastX + 1) + x
ScreenMemory == 0 .. (LastX + 1) * (LastY + 1) - 1

\* The cursor moves and draws, or wipes.
Draw ==
  /\ px' = MaxMin((px + dx') % Words, LastX, 0)
  /\ py' = MaxMin((py + dy') % Words, LastY, 0)
  /\ pixels' = CASE pbutton' = 1 -> pixels \cup {Address(px', py')}
                 [] pbutton' = 2 -> pixels \ {Address(px', py')}
                 [] OTHER -> pixels

\* The three bytes that count: those of a report behind its number, if any.
Report(bytes) ==
  /\ pbutton' = Button(bytes[1])
  /\ dx' = Delta(dx, bytes[2]) /\ dy' = Delta(dy, bytes[3])
  /\ Draw

Rest == pbutton' = 0 /\ dx' = 0 /\ dy' = 0 /\ Draw

Init ==
  /\ px = (LastX + 1) \div 2 /\ py = (LastY + 1) \div 2 /\ dx = 0 /\ dy = 0
  /\ pbutton = 0 /\ pixels = {}

Byte == 0 .. Bytes - 1
Next == Rest \/ \E bytes \in (0 .. 3) \X Byte \X Byte : Report(bytes)
Spec == Init /\ [][Next]_vars
-----------------------------------------------------------------------------
(* The cursor stays on the screen, at both ends of both axes and for a     *)
(* left or upward movement in unsigned arithmetic, and what it draws stays *)
(* in the screen's memory, off the registers behind it.                    *)
OnScreen ==
  /\ px \in 0 .. LastX /\ py \in 0 .. LastY
  /\ pixels \subseteq ScreenMemory

(* One report moves the cursor no further than a byte can say, except that *)
(* a movement past the left or the upper edge takes it to the other one:   *)
(* the sum is unsigned when maxmin() sees it.                              *)
Reach(p, p1, d, last) ==
  IF p + d < 0 THEN p1 = last ELSE p1 - p \in -(Bytes \div 2) .. Bytes \div 2 - 1
NoJumpButOverTheEdge == [][Reach(px, px', dx', LastX) /\ Reach(py, py', dy', LastY)]_vars

(* The cursor moves as it should: on the screen, within reach.             *)
CursorMoves == []OnScreen /\ NoJumpButOverTheEdge
=============================================================================
