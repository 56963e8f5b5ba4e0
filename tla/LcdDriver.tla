----------------------------- MODULE LcdDriver -----------------------------
(***************************************************************************)
(* The character display's driver (altera_avalon_lcd_16207.c).  write()    *)
(* edits the text of the two lines, works out how they scroll, and paints  *)
(* the cells that differ; ten times a second the timer scrolls, and paints *)
(* too unless a write() is active.                                         *)
(*                                                                         *)
(* A panel that stays busy makes the driver give up for good: every        *)
(* command and every character may find it so.  The timer's routine runs   *)
(* between any two steps of write() and is not interrupted.                *)
(***************************************************************************)
EXTENDS Integers, Sequences

CONSTANTS Height, Width, Virtual,  \* ALT_LCD_HEIGHT, _WIDTH, _VIRTUAL_WIDTH
          ByteWords,  \* x and y are unsigned chars: modulo 2^8
          CharWords,  \* scrollmax is a signed char: 2^8 values around 0
          EscSize,    \* sizeof(escape)
          Plain,      \* bound: the characters given outside an escape,
          InSequence, \* and those given inside one
          MayBreak,   \* bound: the panel may stay busy
          TimerRuns   \* bound: the timer's routine is part of the model

SizesAreReal ==
  /\ {Height, Width, EscSize} \subseteq Nat \ {0}
  /\ Virtual \in Nat /\ Virtual >= Width
  /\ ByteWords \in Nat /\ ByteWords > Virtual /\ ByteWords > 2 * Height
  /\ CharWords \in Nat \ {0}
  /\ MayBreak \in BOOLEAN /\ TimerRuns \in BOOLEAN

ASSUME SizesAssumption == SizesAreReal

VARIABLES x, y, esccount, escape, data,   \* the text and its cursor
          beyond,     \* has the memory behind the lines been blanked?
          width, speed, scrollpos, scrollmax,  \* how it scrolls
          active, broken,
          visible, address,  \* what the driver takes the panel to show
          panel, cursor,     \* what it shows, and its own address counter
          pc, cell, pos, old_scrollpos  \* write() and lcd_repaint_screen()

text   == <<x, y, esccount, escape, data, beyond>>
scroll == <<width, speed>>
screen == <<broken, visible, address, panel, cursor>>
locals == <<cell, pos, old_scrollpos>>
vars   == <<text, scroll, scrollpos, scrollmax, active, screen, pc, locals>>

Rows == 0 .. Height - 1
Cols == 0 .. Virtual - 1
Blank == " "

\* colstart[]: where the rows start in the panel's memory.
ColStart(r) == Virtual * r
Cells == [i \in 1 .. Height * Width |->
            [row |-> (i - 1) \div Width, col |-> (i - 1) % Width]]

\* A value kept in a signed char.
SignedChar(i) == ((i + CharWords \div 2) % CharWords) - CharWords \div 2

(***************************************************************************)
(* Painting.  lcd_write_command() and lcd_write_data() do nothing once the *)
(* panel is broken; the cell is taken for painted all the same.            *)
(***************************************************************************)
Screen == [broken |-> broken, visible |-> visible, address |-> address,
           panel |-> panel, cursor |-> cursor]

SetScreen(s) ==
  /\ broken' = s.broken /\ visible' = s.visible /\ address' = s.address
  /\ panel' = s.panel /\ cursor' = s.cursor

\* The character lcd_repaint_screen() wants in cell c at scroll position p.
Shown(c, p) ==
  LET offset == (p * speed[c.row]) \div 256
      start  == IF offset >= width[c.row] THEN 0 ELSE offset
      i      == (c.col + start) % width[c.row]
  IN IF i < Virtual THEN data[c.row][i] ELSE Blank

Differs(s, c, p) == s.visible[c.row][c.col] # Shown(c, p)
AddressOf(c) == ColStart(c.row) + c.col

Command(s, c) ==
  IF s.address = AddressOf(c) THEN s
  ELSE [s EXCEPT !.address = AddressOf(c),
                 !.cursor = IF s.broken THEN @ ELSE AddressOf(c)]

Character(s, c, p) ==
  [s EXCEPT !.visible[c.row][c.col] = Shown(c, p),
            !.address = IF s.broken THEN @ ELSE @ + 1,
            !.panel = IF s.broken THEN @ ELSE [@ EXCEPT ![s.cursor] = Shown(c, p)],
            !.cursor = IF s.broken THEN @ ELSE @ + 1]

PaintCell(s, c, p) ==
  IF Differs(s, c, p) THEN Character(Command(s, c), c, p) ELSE s

Repaint(s, p) ==
  LET painted[i \in 0 .. Len(Cells)] ==
        IF i = 0 THEN s ELSE PaintCell(painted[i - 1], Cells[i], p)
  IN painted[Len(Cells)]

\* Any access may find the panel busy for too long; what it shows is then of
\* no interest.
Broken(s) == [s EXCEPT !.broken = TRUE, !.cursor = 0,
                       !.panel = [a \in DOMAIN panel |-> Blank]]
Healthy == {s \in {Screen, Broken(Screen)} : s = Screen \/ MayBreak}

(***************************************************************************)
(* The text.                                                               *)
(***************************************************************************)
BlankRow == [c \in Cols |-> Blank]

ScrolledUp == [r \in Rows |-> IF r < Height - 1 THEN data[r + 1] ELSE BlankRow]

\* lcd_scroll_up(), n times.
ScrollUp(n) ==
  data' = [r \in Rows |-> IF r + n < Height THEN data[r + n] ELSE BlankRow]

Digits  == {"1", "2"}
Number(d) == IF d = "1" THEN 1 ELSE 2

\* The decimal number spelt by the digits from place i on.
RunOfDigits(i) ==
  LET end == CHOOSE j \in i .. Len(escape) + 1 :
               /\ j = Len(escape) + 1 \/ escape[j] \notin Digits
               /\ \A k \in i .. j - 1 : escape[k] \in Digits
  IN SubSeq(escape, i, end - 1)

Value(ds) ==
  LET value[i \in 0 .. Len(ds)] ==
        IF i = 0 THEN 0 ELSE 10 * value[i - 1] + Number(ds[i])
  IN value[Len(ds)]

\* parm1 is -1 unless the escape sequence starts with '['; parm2 follows ';'.
IsLong == escape # <<>> /\ escape[1] = "["
Parm1 == IF IsLong THEN Value(RunOfDigits(2)) ELSE -1
Parm2 ==
  LET i == IF IsLong THEN 2 + Len(RunOfDigits(2)) ELSE 1
  IN IF IsLong /\ i <= Len(escape) /\ escape[i] = ";"
       THEN Value(RunOfDigits(i + 1)) ELSE 0

\* ESC [ row ; col H: a row below the screen scrolls it.
MoveTo ==
  LET asked == (Parm1 - 1) % ByteWords
      row   == IF asked > 2 * Height THEN 2 * Height ELSE asked
  IN /\ x' = IF Parm2 > 0 THEN (Parm2 - 1) % ByteWords ELSE x
     /\ y' = IF Parm1 <= 0 THEN y ELSE IF row > Height THEN Height ELSE row
     /\ IF Parm1 > 0 /\ row > Height THEN ScrollUp(row - Height)
                                     ELSE UNCHANGED data
     /\ UNCHANGED beyond

\* lcd_clear_screen()
ClearScreen ==
  /\ x' = 0 /\ y' = 0
  /\ data' = [r \in Rows |-> BlankRow] /\ UNCHANGED beyond
  /\ width' = [r \in Rows |-> 0]
  /\ \E s \in Healthy :
       SetScreen([s EXCEPT !.visible = [r \in Rows |-> [c \in 0 .. Width - 1 |-> Blank]],
                           !.address = 0,
                           !.panel = IF s.broken THEN @ ELSE [a \in DOMAIN @ |-> Blank],
                           !.cursor = IF s.broken THEN @ ELSE 0])

\* ESC K: below the last row this blanks the memory behind the lines.
ClearToEnd ==
  /\ data' = IF y \in Rows
               THEN [data EXCEPT ![y] = [c \in Cols |-> IF c >= x THEN Blank ELSE @[c]]]
               ELSE data
  /\ beyond' = (beyond \/ (y \notin Rows /\ x < Virtual))
  /\ UNCHANGED <<x, y>>

\* lcd_handle_escape()
HandleEscape(c) ==
  /\ esccount' = -1 /\ escape' = <<>>
  /\ CASE c \in {"H", "f"}        -> MoveTo /\ UNCHANGED <<width, screen>>
       [] c = "J" /\ Parm1 = 2    -> ClearScreen
       [] c = "K" /\ Parm1 < 1    -> ClearToEnd /\ UNCHANGED <<width, screen>>
       [] OTHER -> UNCHANGED <<x, y, data, beyond, width, screen>>

EndsEscape(c) ==
  \/ esccount = 0 /\ c # "["
  \/ esccount > 0 /\ c \notin Digits \cup {";"}

\* What does not fit into escape is dropped.
InEscape(c) ==
  /\ esccount >= 0 /\ c \in InSequence
  /\ IF EndsEscape(c) THEN HandleEscape(c)
     ELSE /\ IF esccount < EscSize - 1
               THEN esccount' = esccount + 1 /\ escape' = Append(escape, c)
               ELSE UNCHANGED <<esccount, escape>>
          /\ UNCHANGED <<x, y, data, beyond, width, screen>>

\* A line feed leaves the cursor below the last row, once.
LineFeed ==
  /\ x' = 0
  /\ y' = IF y + 1 > Height THEN Height ELSE y + 1
  /\ IF y + 1 > Height THEN ScrollUp(1) ELSE UNCHANGED data

Printable(c) ==
  LET rows == IF y >= Height THEN ScrolledUp ELSE data
      row  == IF y >= Height THEN y - 1 ELSE y
  IN /\ data' = IF x < Virtual THEN [rows EXCEPT ![row][x] = c] ELSE rows
     /\ y' = row /\ x' = (x + 1) % ByteWords

OutsideEscape(c) ==
  /\ esccount < 0 /\ c \in Plain
  /\ CASE c = "ESC" -> esccount' = 0 /\ UNCHANGED <<x, y, escape, data>>
       [] c = "CR"  -> x' = 0 /\ UNCHANGED <<y, esccount, escape, data>>
       [] c = "LF"  -> LineFeed /\ UNCHANGED <<esccount, escape>>
       [] c = "BS"  -> /\ x' = IF x > 0 THEN x - 1 ELSE x
                       /\ UNCHANGED <<y, esccount, escape, data>>
       [] OTHER     -> Printable(c) /\ UNCHANGED <<esccount, escape>>
  /\ UNCHANGED <<beyond, width, screen>>

Begin ==
  /\ pc = "idle"
  /\ active' = TRUE /\ pc' = "text"
  /\ UNCHANGED <<text, scroll, scrollpos, scrollmax, screen, locals>>

PutCharacter ==
  /\ pc = "text"
  /\ \E c \in Plain \cup InSequence : InEscape(c) \/ OutsideEscape(c)
  /\ UNCHANGED <<speed, scrollpos, scrollmax, active, pc, locals>>

\* The length of a row's text; a row that is too long for the panel gets a
\* blank between its end and its beginning.
TextWidth(r) ==
  LET used == {c + 1 : c \in {d \in Cols : data[r][d] # Blank}}
      len  == IF used = {} THEN 0 ELSE CHOOSE n \in used : \A m \in used : m <= n
  IN IF len <= Width THEN Width ELSE len + 1

Widest == CHOOSE w \in {TextWidth(r) : r \in Rows} :
            \A r \in Rows : TextWidth(r) <= w

\* All rows are to come round in the same time.
Recalculate ==
  /\ pc = "text"
  /\ width' = [r \in Rows |-> TextWidth(r)]
  /\ scrollmax' = IF Widest <= Width THEN 0 ELSE SignedChar(2 * Widest)
  /\ speed' = [r \in Rows |-> IF TextWidth(r) <= Width THEN 0
                              ELSE (256 * TextWidth(r)) \div (2 * Widest)]
  /\ pc' = "old"
  /\ UNCHANGED <<text, scrollpos, active, screen, locals>>

RememberPosition ==
  /\ pc = "old"
  /\ old_scrollpos' = scrollpos /\ pc' = "repaint"
  /\ UNCHANGED <<text, scroll, scrollpos, scrollmax, active, screen, cell, pos>>

BeginRepaint ==
  /\ pc = "repaint"
  /\ pos' = scrollpos /\ cell' = 1 /\ pc' = "cell"
  /\ UNCHANGED <<text, scroll, scrollpos, scrollmax, active, screen,
                 old_scrollpos>>

PaintCommand ==
  /\ pc = "cell"
  /\ IF Differs(Screen, Cells[cell], pos)
       THEN /\ \E s \in Healthy : SetScreen(Command(s, Cells[cell]))
            /\ pc' = "data"
            /\ UNCHANGED cell
       ELSE /\ UNCHANGED screen
            /\ IF cell < Len(Cells) THEN cell' = cell + 1 /\ UNCHANGED pc
                                    ELSE pc' = "release" /\ UNCHANGED cell
  /\ UNCHANGED <<text, scroll, scrollpos, scrollmax, active, pos,
                 old_scrollpos>>

PaintData ==
  /\ pc = "data"
  /\ \E s \in Healthy : SetScreen(Character(s, Cells[cell], pos))
  /\ pc' = "cell"
  /\ UNCHANGED <<text, scroll, scrollpos, scrollmax, active, locals>>

Release ==
  /\ pc = "release"
  /\ active' = FALSE /\ pc' = "check"
  /\ UNCHANGED <<text, scroll, scrollpos, scrollmax, screen, locals>>

\* (Mutant: the timer's scrolling is not looked for.)
NoCheck ==
  /\ pc = "check"
  /\ pc' = "idle" /\ cell' = 1 /\ pos' = 0 /\ old_scrollpos' = 0
  /\ UNCHANGED <<text, scroll, scrollpos, scrollmax, active, screen>>

\* Has the timer scrolled meanwhile?  Then once more.
Check ==
  /\ pc = "check"
  /\ cell' = 1 /\ pos' = 0 /\ old_scrollpos' = 0
  /\ IF scrollpos = old_scrollpos
       THEN pc' = "idle" /\ UNCHANGED active
       ELSE active' = TRUE /\ pc' = "old"
  /\ UNCHANGED <<text, scroll, scrollpos, scrollmax, screen>>

Write ==
  \/ Begin
  \/ PutCharacter
  \/ Recalculate
  \/ RememberPosition
  \/ BeginRepaint
  \/ PaintCommand
  \/ PaintData
  \/ Release
  \/ Check

NextPosition == IF scrollpos + 1 >= scrollmax THEN 0 ELSE scrollpos + 1

\* Bound: less than a whole round of scrolling, several seconds, passes while
\* write() paints its few cells; then a position that has come back to the
\* remembered one has not moved.
NotARound ==
  pc \in {"repaint", "cell", "data", "release", "check"} =>
    NextPosition = scrollpos \/ NextPosition # old_scrollpos

\* alt_lcd_16207_timeout()
Timeout ==
  /\ TimerRuns /\ NotARound
  /\ scrollpos' = NextPosition
  /\ IF scrollmax > 0 /\ ~active
       THEN \E s \in Healthy : SetScreen(Repaint(s, scrollpos'))
       ELSE UNCHANGED screen
  /\ UNCHANGED <<text, scroll, scrollmax, active, pc, locals>>

Next == Write \/ Timeout

\* altera_avalon_lcd_16207_init(), and the panel it has cleared.
Init ==
  /\ x = 0 /\ y = 0 /\ esccount = -1 /\ escape = <<>>
  /\ data = [r \in Rows |-> BlankRow] /\ beyond = FALSE
  /\ width = [r \in Rows |-> 0] /\ speed = [r \in Rows |-> 0]
  /\ scrollpos = 0 /\ scrollmax = 0 /\ active = FALSE
  /\ broken \in {b \in BOOLEAN : b => MayBreak}
  /\ visible = [r \in Rows |-> [c \in 0 .. Width - 1 |-> Blank]]
  /\ address = 0 /\ cursor = 0
  /\ panel = [a \in 0 .. Height * Virtual |-> Blank]
  /\ pc = "idle" /\ cell = 1 /\ pos = 0 /\ old_scrollpos = 0

Spec == Init /\ [][Next]_vars

(***************************************************************************)
(* Properties.                                                             *)
(***************************************************************************)

\* The cursor stays on the screen or just below it, and the rest in range.
TypeOK ==
  /\ x \in 0 .. ByteWords - 1 /\ y \in 0 .. Height
  /\ esccount = (IF Len(escape) = 0 THEN esccount ELSE Len(escape))
  /\ esccount \in -1 .. EscSize - 1
  /\ \A r \in Rows : width[r] \in 0 .. Virtual + 1 /\ speed[r] \in 0 .. 128
  /\ scrollpos >= 0
  /\ address \in 0 .. Height * Virtual /\ cursor \in DOMAIN panel

\* The panel shows what the driver takes it to show, and writes where the
\* driver takes it to write: the timer never paints between the two halves of
\* a cell (sp->active), and every command is accounted for in sp->address.
PanelShows ==
  ~broken =>
    /\ cursor = address
    /\ \A r \in Rows, c \in 0 .. Width - 1 : panel[ColStart(r) + c] = visible[r][c]

\* Between writes the display is up to date: it shows the text as it is, at
\* the position the timer has scrolled to, and no scrolling during write()
\* was missed (the loop at the end of write()).  (Lines so long that scrollmax
\* overflows do not scroll.)
ShownIsCurrent ==
  pc = "idle" /\ (\A r \in Rows : width[r] > 0 /\ 2 * width[r] < CharWords \div 2) =>
    \A i \in DOMAIN Cells :
      visible[Cells[i].row][Cells[i].col] = Shown(Cells[i], scrollpos)

\* While the timer may paint no row is without a width to divide by.
NoZeroDivision == scrollmax > 0 /\ ~active => \A r \in Rows : width[r] > 0

\* The display is true: the driver's state keeps its ranges, the panel shows
\* and writes where the driver takes it to, and between writes it is up to
\* date, with the position the timer has scrolled to; and while the timer may
\* paint, no row is without a width to divide by.
DisplayIsTrue == TypeOK /\ PanelShows /\ ShownIsCurrent /\ NoZeroDivision
=============================================================================
