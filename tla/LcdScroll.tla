----------------------------- MODULE LcdScroll -----------------------------
(***************************************************************************)
(* How the lines of the character display scroll (LcdDriver), with the     *)
(* sizes of the driver: write() has fixed the widths of the lines, and the *)
(* timer moves the common scroll position on, round after round.           *)
(***************************************************************************)
EXTENDS Integers

CONSTANTS Height, Width,  \* ALT_LCD_HEIGHT, ALT_LCD_WIDTH
          Widths          \* bound: the widths of lines that write() may find

WidthsAreReal ==
  /\ {Height, Width} \subseteq Nat \ {0}
  /\ Widths \subseteq Nat /\ \A w \in Widths : w >= Width

VARIABLES width, speed, scrollmax, scrollpos

vars == <<width, speed, scrollmax, scrollpos>>

Rows == 0 .. Height - 1
SignedChar(i) == ((i + 128) % 256) - 128

Widest(w) == CHOOSE m \in {w[r] : r \in Rows} : \A r \in Rows : w[r] <= m

\* All lines that scroll are to finish a round together.
Speed(w, r) == IF w[r] <= Width THEN 0
               ELSE ((256 * w[r]) \div (2 * Widest(w))) % 256

ScrollMax(w) == IF Widest(w) <= Width THEN 0 ELSE SignedChar(2 * Widest(w))

Timeout ==
  /\ scrollpos' = IF scrollpos + 1 >= scrollmax THEN 0 ELSE scrollpos + 1
  /\ UNCHANGED <<width, speed, scrollmax>>

Init ==
  /\ width \in [Rows -> Widths]
  /\ speed = [r \in Rows |-> Speed(width, r)]
  /\ scrollmax = ScrollMax(width) /\ scrollpos = 0

FairSpec == Init /\ [][Timeout]_vars /\ WF_vars(Timeout)

\* (Mutant: the position is taken for quarters of a cell.)
OffsetInQuarters(r) ==
  LET offset == (scrollpos * speed[r]) \div 64
  IN IF offset >= width[r] THEN 0 ELSE offset

Offset(r) ==
  LET offset == (scrollpos * speed[r]) \div 256
  IN IF offset >= width[r] THEN 0 ELSE offset

Visible(r, i) == \E c \in 0 .. Width - 1 : (c + Offset(r)) % width[r] = i

\* "If the lines written to the terminal are longer than the number of
\* characters on the terminal then it will scroll the lines of text
\* automatically to display them all" (altera_avalon_lcd_16207.c:37-40):
\* the last character of every line is shown again and again.
AllIsDisplayed == \A r \in Rows : []<>Visible(r, width[r] - 1)

\* Scrolling never jumps over a character, except back to the beginning, and
\* it goes back only when the end of the line has been shown.
NothingSkipped ==
  [][\A r \in Rows :
       IF scrollpos' = 0 THEN Visible(r, width[r] - 1)
                         ELSE Offset(r)' - Offset(r) \in {0, 1}]_vars

\* "all the scrolls finish at the same time"
\* (altera_avalon_lcd_16207.c:471-473): when the position starts again, every
\* line that scrolls is within two cells of its own end.
FinishTogether ==
  [][\A r \in Rows :
       scrollpos' = 0 /\ width[r] > Width => width[r] - Offset(r) \in 1 .. 2]_vars
=============================================================================
